---- MODULE Spec2Model ----
(***************************************************************************)
(* Room presence and broadcast core of the collaborative editor server.    *)
(* The Socket.IO server exists in two variants: server/src/server.ts       *)
(* (first program of the file) and unnamed/part_001.  Both keep the        *)
(* registry userSocketMap and route events through Socket.IO rooms.        *)
(***************************************************************************)
EXTENDS Integers, Sequences, FiniteSets, TLC

\* ------------------------------------------------------------------ domains
\* Socket ids of the transport connections of a run.
Sockets == {"c1", "c2", "c3"}
\* Usernames a join-request may carry.
Usernames == {"alice", "bob"}
\* Room ids a join-request may carry: an ordinary id, the empty string, and
\* a string that is also the id of a socket (room ids and socket ids are
\* strings of one Socket.IO room namespace).
RoomIds == {"r1", "", "c3"}
\* The room ids and usernames of the runs of join and leave alone: three
\* usernames let three sockets be members of one room.
JoinRoomIds == {"r1", "c3"}
JoinUsernames == {"alice", "bob", "carol"}
\* Two ordinary room ids, for the checks of the registry invariants.
PlainRoomIds == {"r1", "r2"}
\* The socketId field of user-online / user-offline: any socket id, or a
\* string that names no socket.
TargetIds == Sockets \cup {"zz"}
\* cursorPosition values of typing-start.
CursorPositions == {3}
\* cursorPosition values a client may put into typing-start: the payload is
\* whatever the client sends.
RawCursorPositions == {-1, 3}
\* The opaque payload of a room broadcast (passed through unchanged).
Payloads == {"d1"}
\* The socketId field of sync-file-structure / sync-drawing: any socket id,
\* a string that names no socket, or a string that is a room id.
SyncTargetIds == TargetIds \cup {"r1"}
\* Cap on the number of handlers whose deliveries are followed in order.
MaxEvents == 4
\* What each Pusher client types into the join form: c1 and c2 join the
\* plain room under different names, c3 joins a room whose id reads as the
\* presence channel of the plain room.
TypedUsername == [c \in Sockets |-> IF c = "c2" THEN "bob" ELSE "alice"]

TypedRoomId == [c \in Sockets |-> IF c = "c3" THEN "presence-r1" ELSE "r1"]

\* The room ids POST /api/join-room is sent: a plain one and the empty one.
PusherRoomIds == {"r1", ""}

\* The userId values POST /api/join-room generates (Date.now and a random
\* suffix: a fresh string each time).
UserIds == {"user_1", "user_2", "user_3"}
\* Cap on the requests one HTTP client sends to the Pusher server.
MaxRequests == 1
\* Cap on the registry length explored.
MaxRows == 2
\* The two SocketProvider sources that wrap a Socket.IO client socket.
Part006 == "part_006"
SocketContextTsx == "SocketContext.tsx"
\* The disconnect reasons Socket.IO hands to the disconnect handler when the
\* client did not ask for the disconnect.
DisconnectReasons ==
    {"io server disconnect", "transport close", "ping timeout", "transport error"}
\* The connect_error messages the handlers tell apart.
ConnectErrors == {"timeout on websocket", "xhr poll error"}
\* io(...) returns a socket whose connect() starts the connection, or it
\* throws, or the socket's connect() throws.
IoOutcomes == {"ok", "throws", "connect throws"}
MAX_RETRIES == 3
\* ms
RETRY_DELAY == 2000
\* mongoose.connection.readyState: disconnected, connected, connecting,
\* disconnecting.
ReadyStates == 0..3
\* Cap on the sockets one provider creates.
MaxSockets == 3
\* Cap on the timers pending at one time.
MaxTimers == 2
\* Cap on the failure events between two successful connects.
MaxFailures == 2
\* Cap on the events the application passes to emit.
MaxEmits == 2

ONLINE == "online"
OFFLINE == "offline"
Null == "null"
ServerTs == "server.ts"
Part001 == "part_001"
\* The Pusher server (second program of server/src/server.ts).
PusherTs == "server.ts (Pusher)"

VARIABLES
    variant,        \* which server file runs: ServerTs or Part001
    userSocketMap,  \* the registry: a sequence of User rows
    connected,      \* sockets whose disconnect has not been processed
    rooms,          \* rooms[s]: the Socket.IO rooms socket s is in
    out,            \* out[s]: the events delivered to s by the last handler
    last,           \* the last handler that ran, with its payload
    crashed,        \* an exception escaped a handler (uncaught)
    trace,          \* whether out and last are recorded (history switch)
    pending,        \* the awaited calls that have not settled yet
    inbox,          \* inbox[s]: everything delivered to s so far, in order
    track,          \* which of pending and inbox are recorded (switch)
    triggered,      \* the pusher.trigger calls made so far, in order
    pusherClient,   \* pusherClient[c]: the Pusher SocketProvider of client c
    provider,       \* the Socket.IO SocketProvider: refs, state, timers, sockets
    db              \* connectToDatabase: module state and the running call

\* The variables of the client side and of the database connection; the
\* handlers of the servers do not touch them.
clientVars == <<pusherClient, provider, db>>

\* The variables of the servers' handlers.
serverVars == <<variant, userSocketMap, connected, rooms, out, last, crashed,
                trace, pending, inbox, track, triggered>>

vars == <<variant, userSocketMap, connected, rooms, out, last, crashed, trace,
          pending, inbox, track, triggered, pusherClient, provider, db>>

\* ------------------------------------------------------------------ helpers
Min(S) == CHOOSE x \in S : \A y \in S : x <= y

NoOut == [s \in Sockets |-> << >>]

Msg(ev, payload) == [ev |-> ev, payload |-> payload]

Op(op, sock, roomId, username, target, cursorPosition) ==
    [op |-> op, sock |-> sock, roomId |-> roomId, username |-> username,
     target |-> target, cursorPosition |-> cursorPosition]

NoOp == Op("init", "-", "-", "-", "-", -1)

\* out and last are history variables: no handler reads them.  They are
\* recorded while trace holds; the registry invariants are checked with
\* trace off, over a larger registry.
Emitted(o) == IF trace THEN o ELSE NoOut

Ran(op) == IF trace THEN op ELSE NoOp

\* pending and inbox are recorded only in the specifications that follow the
\* awaited calls, resp. the order of delivery; elsewhere they stay empty.
\* An awaited call is recorded with the handler that continues after it.
Awaited(call) == IF "pending" \in track THEN pending \cup {call} ELSE pending

\* The number the server gives to the handler it runs next: handlers are
\* numbered in the order the server processes them.
Max(S) == CHOOSE x \in S : \A y \in S : x >= y

\* The handler numbers of the deliveries recorded in ib.
Stamps(ib) == UNION {{ib[c][i].at : i \in 1..Len(ib[c])} : c \in Sockets}

Clock == IF Stamps(inbox) = {} THEN 1 ELSE Max(Stamps(inbox)) + 1

\* The deliveries o of one handler, numbered with the handler; the payload
\* is kept where the receiver's handlers are followed.
Stamped(o, c) ==
    [i \in 1..Len(o[c]) |->
        IF "payload" \in track
        THEN [ev |-> o[c][i].ev, at |-> Clock, payload |-> o[c][i].payload]
        ELSE [ev |-> o[c][i].ev, at |-> Clock]]

\* Queued with a transport that hands the newest delivery over first.
QueuedInFront(o) ==
    IF "inbox" \in track
    THEN [c \in Sockets |-> Stamped(o, c) \o inbox[c]]
    ELSE inbox

\* emit writes to the connection of each addressed socket at once, so every
\* socket's deliveries queue up in the order of the emit calls; the
\* transport keeps that order.
Queued(o) ==
    IF "inbox" \in track
    THEN [c \in Sockets |-> inbox[c] \o Stamped(o, c)]
    ELSE inbox

\* The sockets in Socket.IO room `room` under the room assignment rm.
InRoom(rm, room) == {s \in Sockets : room \in rm[s]}

\* io.to(room).emit(ev, payload): every socket in the room.
IoTo(o, rm, room, msg) ==
    [s \in Sockets |-> IF s \in InRoom(rm, room) THEN Append(o[s], msg) ELSE o[s]]

\* socket.broadcast.to(room).emit(ev, payload): every socket in the room
\* except the sender.
BroadcastTo(o, rm, sock, room, msg) ==
    [s \in Sockets |->
        IF s \in InRoom(rm, room) \ {sock} THEN Append(o[s], msg) ELSE o[s]]

\* ------------------------------------------------------------------ registry
NewUser(username, roomId, socketId) ==
    [username |-> username, roomId |-> roomId, status |-> ONLINE,
     cursorPosition |-> 0, typing |-> FALSE, socketId |-> socketId,
     currentFile |-> Null]

UsersInRoom(map, roomId) == SelectSeq(map, LAMBDA u : u.roomId = roomId)

getUsersInRoom(roomId) == UsersInRoom(userSocketMap, roomId)

\* Array.prototype.find: index of the first row of the socket, 0 if none.
FindIndex(map, socketId) ==
    LET I == {i \in 1..Len(map) : map[i].socketId = socketId}
    IN  IF I = {} THEN 0 ELSE Min(I)

HasRow(map, socketId) == FindIndex(map, socketId) # 0

\* getUserBySocketId returns the row or null; callers test HasRow first.
getUserBySocketId(map, socketId) == map[FindIndex(map, socketId)]

\* `!roomId` of getRoomId: no row, or a row whose roomId is falsy.
RoomIdMissing(map, socketId) ==
    \/ ~HasRow(map, socketId)
    \/ map[FindIndex(map, socketId)].roomId = ""

\* getRoomId: server.ts returns null (Null) when the room id is missing;
\* part_001 throws instead (see GetRoomIdThrows).
getRoomId(map, socketId) ==
    IF RoomIdMissing(map, socketId) THEN Null
    ELSE map[FindIndex(map, socketId)].roomId

GetRoomIdThrows(map, socketId) ==
    variant = Part001 /\ RoomIdMissing(map, socketId)

\* getRoomId(userId) of the Pusher server throws "Room ID not found" when
\* the room id is missing.
PusherGetRoomIdThrows(map, userId) == RoomIdMissing(map, userId)

\* userSocketMap.map(user => user.socketId === socketId ? f(user) : user)
MapRows(map, socketId, f(_)) ==
    [i \in 1..Len(map) |-> IF map[i].socketId = socketId THEN f(map[i]) ELSE map[i]]

\* RemoveSocket taking out the first row of the socket only (find + splice).
RemoveFirstRow(map, socketId) ==
    LET k == FindIndex(map, socketId)
    IN  IF k = 0 THEN map
        ELSE SubSeq(map, 1, k - 1) \o SubSeq(map, k + 1, Len(map))

\* RemoveSocket keeping the rows of the socket, marked OFFLINE (soft delete).
RemoveSocketSoft(map, socketId) ==
    [i \in 1..Len(map) |->
        IF map[i].socketId = socketId
        THEN [map[i] EXCEPT !.status = OFFLINE]
        ELSE map[i]]

\* userSocketMap.filter(u => u.socketId !== socketId)
RemoveSocket(map, socketId) == SelectSeq(map, LAMBDA u : u.socketId # socketId)

\* ------------------------------------------------------------------ initial client state
\* The Pusher SocketProvider of a client before joinRoom is called: no
\* request sent, no channel subscribed, the user list empty.
NoRequest == [roomId |-> Null, username |-> Null]

NewPusherClient ==
    [request |-> NoRequest, answered |-> FALSE, channel |-> Null,
     since |-> 0, read |-> 0,
     status |-> "INITIAL", currentUser |-> Null, users |-> << >>]

\* The Socket.IO SocketProvider after its first render, before its effect
\* has run: useState and useRef initial values, no socket, no timer.
NewProvider(file, isDevelopment) ==
    [file |-> file, isDevelopment |-> isDevelopment, mounted |-> FALSE,
     isMountedRef |-> TRUE, isInitializedRef |-> FALSE, retryAttemptsRef |-> 0,
     socketRef |-> 0, isConnected |-> FALSE, status |-> "disconnected",
     sockets |-> << >>, timers |-> [t \in {} |-> 0], passed |-> 0,
     sent |-> << >>, failures |-> 0, effectRan |-> FALSE,
     lastRun |-> [event |-> "none", init |-> "none", delay |-> 0]]

\* The module state of connectToDatabase before a top-level call.
\* The module state of connectToDatabase, mongoose.connection.readyState,
\* whether MONGODB_URI is defined, and the position of the running call
\* (pc, retryCount).  attempts, waited, errors, thrown and wasReady are
\* history of the running top-level call: the runs of its try block, the
\* delays it has awaited, the errors it has caught, the error it threw,
\* and whether the call found the connection up.
NewDb(isConnected, readyState, mongoUri) ==
    [isConnected |-> isConnected, readyState |-> readyState,
     mongoUri |-> mongoUri, pc |-> "idle", retryCount |-> 0, attempts |-> 0,
     waited |-> << >>, errors |-> << >>, thrown |-> Null, wasReady |-> FALSE]

\* ------------------------------------------------------------------ Init
\* The client side and the database connection at rest.
InitClients ==
    /\ pusherClient = [c \in Sockets |-> NewPusherClient]
    /\ provider = NewProvider("part_006", FALSE)
    /\ db = NewDb(FALSE, 0, TRUE)

InitServer ==
    /\ userSocketMap = << >>
    /\ connected = Sockets
    /\ rooms = [s \in Sockets |-> {s}]
    /\ out = NoOut
    /\ last = NoOp
    /\ crashed = FALSE
    /\ pending = {}
    /\ inbox = NoOut
    /\ triggered = << >>

InitCommon == InitServer /\ InitClients

Init == variant = ServerTs /\ trace = TRUE /\ track = {} /\ InitCommon

InitQuiet == variant = ServerTs /\ trace = FALSE /\ track = {} /\ InitCommon

InitPart001 == variant = Part001 /\ trace = TRUE /\ track = {} /\ InitCommon

\* The start of the runs that follow the awaited calls.
InitAwait == variant = ServerTs /\ trace = TRUE /\ track = {"pending"} /\ InitCommon

\* The start of the Pusher server: clients are HTTP clients, out and inbox
\* hold the HTTP responses.
InitPusher ==
    variant = PusherTs /\ trace = TRUE /\ track = {"pending", "inbox"} /\ InitCommon

\* The start of the runs that follow the order of delivery.
InitOrder == variant = ServerTs /\ trace = TRUE /\ track = {"inbox"} /\ InitCommon

\* A handler runs for an open socket while the process is up.
Serving(s) == s \in connected /\ ~crashed

\* ------------------------------------------------------------------ join
\* isUsernameExist counting only the members whose status is ONLINE.
isUsernameExistOnline(roomId, username) ==
    \E i \in 1..Len(getUsersInRoom(roomId)) :
        /\ getUsersInRoom(roomId)[i].username = username
        /\ getUsersInRoom(roomId)[i].status = ONLINE

\* isUsernameExist looking the username up in the whole registry, not in
\* the room asked for.
isUsernameExistAnyRoom(roomId, username) ==
    \E i \in 1..Len(userSocketMap) : userSocketMap[i].username = username

isUsernameExist(roomId, username) ==
    \E i \in 1..Len(getUsersInRoom(roomId)) :
        getUsersInRoom(roomId)[i].username = username

\* JoinEmits with user-joined sent through io.to: the sender is not left out.
JoinEmitsEcho(s, roomId, user, map1, rm1) ==
    IoTo(IoTo(NoOut, rm1, roomId, Msg("user-joined", [user |-> user])),
         rm1, s,
         Msg("join-accepted", [user |-> user, users |-> UsersInRoom(map1, roomId)]))

\* JoinEmits sending a roster of cached participants: every member as it
\* was when it joined.
JoinEmitsCachedRoster(s, roomId, user, map1, rm1) ==
    LET roster == UsersInRoom(map1, roomId)
        cached == [i \in 1..Len(roster) |->
                      NewUser(roster[i].username, roster[i].roomId,
                              roster[i].socketId)]
    IN  IoTo(BroadcastTo(NoOut, rm1, s, roomId, Msg("user-joined", [user |-> user])),
             rm1, s, Msg("join-accepted", [user |-> user, users |-> cached]))

\* The events the JOIN_REQUEST handler emits when it accepts: user-joined
\* to the room except the sender, then join-accepted to the room named by
\* the sender's socket id.  map1 and rm1 are the registry and the rooms
\* after the push and socket.join.
JoinEmits(s, roomId, user, map1, rm1) ==
    IoTo(BroadcastTo(NoOut, rm1, s, roomId, Msg("user-joined", [user |-> user])),
         rm1, s,
         Msg("join-accepted", [user |-> user, users |-> UsersInRoom(map1, roomId)]))

\* await UserModel.create(user): the call in flight, and what it was given.
UserModelCreate(user) == [call |-> "UserModel.create", user |-> user]

JoinRequest(s, roomId, username) ==
    /\ Serving(s)
    /\ last' = Ran(Op("join-request", s, roomId, username, "-", -1))
    /\ IF isUsernameExist(roomId, username)
       THEN /\ out' = Emitted(IoTo(NoOut, rooms, s, Msg("username-exists", << >>)))
            /\ UNCHANGED <<userSocketMap, rooms, pending>>
       ELSE LET user == NewUser(username, roomId, s)
                map1 == Append(userSocketMap, user)
                rm1 == [rooms EXCEPT ![s] = @ \cup {roomId}]
            IN  /\ userSocketMap' = map1
                /\ rooms' = rm1
                /\ out' = Emitted(JoinEmits(s, roomId, user, map1, rm1))
                /\ pending' = Awaited(UserModelCreate(user))
    /\ UNCHANGED <<variant, connected, crashed, trace, track, triggered, clientVars>>
    /\ inbox' = Queued(out')

\* AfterCreate undoing the join when the persistence call fails.
AfterCreateRollback(map, user, ok) ==
    IF ok THEN map ELSE RemoveSocket(map, user.socketId)

\* AfterCreate writing the persisted participant back into the registry.
AfterCreateUpsert(map, user, ok) ==
    IF ok /\ ~HasRow(map, user.socketId) THEN Append(map, user) ELSE map

\* The registry after `await UserModel.create(user)` has settled: the try
\* block ends with the await and the catch block only logs.
AfterCreate(map, user, ok) == map

\* The continuation of JOIN_REQUEST after its await: UserModel.create has
\* resolved (ok) or rejected.  It runs whether or not the socket is still
\* connected.  A call that never settles stays in pending.
UserModelCreateSettled(call, ok) ==
    /\ ~crashed
    /\ call \in pending
    /\ call.call = "UserModel.create"
    /\ pending' = pending \ {call}
    /\ last' = Ran(Op(IF ok THEN "create-resolved" ELSE "create-rejected",
                      call.user.socketId, call.user.roomId, call.user.username,
                      "-", -1))
    /\ userSocketMap' = AfterCreate(userSocketMap, call.user, ok)
    /\ out' = Emitted(NoOut)
    /\ inbox' = Queued(out')
    /\ UNCHANGED <<variant, connected, rooms, crashed, trace, track, triggered, clientVars>>

\* ------------------------------------------------------------------ Pusher join
\* res.status(status).json(...) to HTTP client c.
Respond(c, status) ==
    [s \in Sockets |-> IF s = c THEN <<Msg(status, << >>)>> ELSE << >>]

\* pusher.trigger(channel, ev, {user}): the call is made; whether it
\* resolves is known when the await settles.
Trigger(channel, ev, user) ==
    Append(triggered, [channel |-> channel, ev |-> ev, user |-> user])

\* const users = getUsersInRoom(roomId);
\* pusher.trigger(userId, JOIN_ACCEPTED, {user, users})
TriggerJoinAccepted(user) ==
    Append(triggered, [channel |-> user.socketId, ev |-> "join-accepted",
                       user |-> user, users |-> getUsersInRoom(user.roomId)])

\* The userIds no participant, request or earlier event carries:
\* `user_${Date.now()}_${random}` is never handed out twice.
UnusedUserIds ==
    {id \in UserIds :
        /\ ~HasRow(userSocketMap, id)
        /\ \A call \in pending : call.user.socketId # id
        /\ \A i \in 1..Len(triggered) : triggered[i].user.socketId # id}

FreshUserId == CHOOSE id \in UnusedUserIds : TRUE

\* The requests of client c that have been received and not answered.
InFlight(c) == {call \in pending : call.client = c}

\* POST /api/join-room up to its first await: the username test and the
\* push run without an await between them; then the handler awaits
\* pusher.trigger(roomId, USER_JOINED).
PusherJoinRoom(c, roomId, username) ==
    /\ ~crashed
    /\ variant = PusherTs
    /\ InFlight(c) = {}
    /\ Len(inbox[c]) < MaxRequests
    /\ UnusedUserIds # {}
    /\ last' = Ran(Op("join-room", c, roomId, username, "-", -1))
    /\ IF isUsernameExist(roomId, username)
       THEN /\ out' = Emitted(Respond(c, "400"))
            /\ UNCHANGED <<userSocketMap, pending, triggered>>
       ELSE LET user == NewUser(username, roomId, FreshUserId)
            IN  /\ userSocketMap' = Append(userSocketMap, user)
                /\ triggered' = Trigger(roomId, "user-joined", user)
                /\ pending' = Awaited([call |-> "pusher.trigger user-joined",
                                       user |-> user, client |-> c])
                /\ out' = Emitted(NoOut)
    /\ inbox' = Queued(out')
    /\ UNCHANGED <<variant, connected, rooms, crashed, trace, track, clientVars>>

\* The continuation after an awaited call of POST /api/join-room or POST
\* /api/leave-room: when the call rejects, the catch answers 500 and leaves
\* the registry as it is; when it resolves, the handler goes on to `next`, or answers 200 after
\* the last call.
PusherContinue(call, name, ok, next) ==
    /\ ~crashed
    /\ call \in pending
    /\ call.call = name
    /\ last' = Ran(Op(IF ok THEN "resolved" ELSE "rejected", call.client,
                      call.user.roomId, call.user.username, "-", -1))
    /\ IF ok /\ next # Null
       THEN /\ pending' = (pending \ {call}) \cup {[call EXCEPT !.call = next]}
            /\ out' = Emitted(NoOut)
       ELSE /\ pending' = pending \ {call}
            /\ out' = Emitted(Respond(call.client, IF ok THEN "200" ELSE "500"))
    /\ triggered' =
           IF ok /\ next = "pusher.trigger join-accepted"
           THEN TriggerJoinAccepted(call.user)
           ELSE triggered
    /\ inbox' = Queued(out')
    /\ UNCHANGED <<variant, userSocketMap, connected, rooms, crashed, trace, track, clientVars>>

\* await pusher.trigger(roomId, USER_JOINED, {user}) has settled.
TriggerUserJoinedSettled(call, ok) ==
    PusherContinue(call, "pusher.trigger user-joined", ok,
                   "pusher.trigger join-accepted")

\* await pusher.trigger(userId, JOIN_ACCEPTED, {user, users}) has settled.
TriggerJoinAcceptedSettled(call, ok) ==
    PusherContinue(call, "pusher.trigger join-accepted", ok,
                   "UserModel.create socket-user")

\* await UserModel.create({...user, email, password}) has settled: its own
\* try/catch swallows a rejection, and the handler answers 200 either way.
PusherCreateSettled(call, ok) ==
    /\ ~crashed
    /\ call \in pending
    /\ call.call = "UserModel.create socket-user"
    /\ last' = Ran(Op(IF ok THEN "resolved" ELSE "rejected", call.client,
                      call.user.roomId, call.user.username, "-", -1))
    /\ pending' = pending \ {call}
    /\ out' = Emitted(Respond(call.client, "200"))
    /\ inbox' = Queued(out')
    /\ UNCHANGED <<variant, userSocketMap, connected, rooms, crashed, trace, track, triggered, clientVars>>

\* ------------------------------------------------------------------ Pusher leave
\* POST /api/leave-room up to its await: 404 when getUserById finds no row;
\* getRoomId throws for a row whose roomId is falsy and the catch answers
\* 500; otherwise the row is filtered out and the handler awaits
\* pusher.trigger(roomId, USER_DISCONNECTED, {user}).
PusherLeaveRoom(c, userId) ==
    /\ ~crashed
    /\ variant = PusherTs
    /\ InFlight(c) = {}
    /\ Len(inbox[c]) < MaxRequests
    /\ last' = Ran(Op("leave-room", c, "-", "-", userId, -1))
    /\ IF ~HasRow(userSocketMap, userId)
       THEN /\ out' = Emitted(Respond(c, "404"))
            /\ UNCHANGED <<userSocketMap, pending, triggered>>
       ELSE IF PusherGetRoomIdThrows(userSocketMap, userId)
       THEN /\ out' = Emitted(Respond(c, "500"))
            /\ UNCHANGED <<userSocketMap, pending, triggered>>
       ELSE LET user == getUserBySocketId(userSocketMap, userId)
            IN  /\ userSocketMap' = RemoveSocket(userSocketMap, userId)
                /\ triggered' = Trigger(getRoomId(userSocketMap, userId),
                                        "user-disconnected", user)
                /\ pending' = Awaited([call |-> "pusher.trigger user-disconnected",
                                       user |-> user, client |-> c])
                /\ out' = Emitted(NoOut)
    /\ inbox' = Queued(out')
    /\ UNCHANGED <<variant, connected, rooms, crashed, trace, track, clientVars>>

\* await pusher.trigger(roomId, USER_DISCONNECTED, {user}) has settled: 200
\* when it resolved, 500 from the catch when it rejected; the registry is
\* not touched again.
TriggerUserDisconnectedSettled(call, ok) ==
    PusherContinue(call, "pusher.trigger user-disconnected", ok, Null)

\* ------------------------------------------------------------------ disconnect
\* Disconnecting without the `if (!user) return` guard: a socket that has no
\* row is announced to every other open connection.
DisconnectingUnguarded(s) ==
    /\ Serving(s)
    /\ last' = Ran(Op("disconnecting", s, "-", "-", "-", -1))
    /\ connected' = connected \ {s}
    /\ rooms' = [rooms EXCEPT ![s] = {}]
    /\ IF ~HasRow(userSocketMap, s)
       THEN out' = Emitted([c \in Sockets |->
                       IF c \in connected \ {s}
                       THEN <<Msg("user-disconnected", [user |-> Null])>>
                       ELSE << >>])
       ELSE out' = Emitted(BroadcastTo(NoOut, rooms, s,
                               getUserBySocketId(userSocketMap, s).roomId,
                               Msg("user-disconnected",
                                   [user |-> getUserBySocketId(userSocketMap, s)])))
    /\ userSocketMap' = RemoveSocket(userSocketMap, s)
    /\ UNCHANGED <<variant, crashed, trace, track, triggered, clientVars>>
    /\ inbox' = Queued(out')
    /\ UNCHANGED pending

Disconnecting(s) ==
    /\ Serving(s)
    /\ last' = Ran(Op("disconnecting", s, "-", "-", "-", -1))
    /\ connected' = connected \ {s}
    \* Socket.IO removes a disconnected socket from all its rooms.
    /\ rooms' = [rooms EXCEPT ![s] = {}]
    /\ IF ~HasRow(userSocketMap, s)
       THEN /\ out' = Emitted(NoOut)
            /\ UNCHANGED userSocketMap
       ELSE LET user == getUserBySocketId(userSocketMap, s)
            IN  IF GetRoomIdThrows(userSocketMap, s)
                THEN \* part_001: the throw is caught, the row stays
                     /\ out' = Emitted(NoOut)
                     /\ UNCHANGED userSocketMap
                ELSE /\ out' = Emitted(BroadcastTo(NoOut, rooms, s, user.roomId,
                                   Msg("user-disconnected", [user |-> user])))
                     /\ userSocketMap' = RemoveSocket(userSocketMap, s)
    /\ UNCHANGED <<variant, crashed, trace, track, triggered, clientVars>>
    /\ inbox' = Queued(out')
    /\ UNCHANGED pending

\* ------------------------------------------------------------------ room broadcasts
\* The common body of the room-broadcast handlers: look the sender's room
\* up, drop the event when there is none, else relay it to the room.
RoomBroadcast(s, ev, emitted, payload) ==
    /\ Serving(s)
    /\ last' = Ran(Op(ev, s, "-", "-", "-", -1))
    /\ IF GetRoomIdThrows(userSocketMap, s)
       THEN /\ crashed' = TRUE
            /\ out' = Emitted(NoOut)
       ELSE /\ crashed' = crashed
            /\ LET roomId == getRoomId(userSocketMap, s)
               IN  IF roomId = Null
                   THEN out' = Emitted(NoOut)
                   ELSE out' = Emitted(BroadcastTo(NoOut, rooms, s, roomId,
                                                   Msg(emitted, payload)))
    /\ UNCHANGED <<variant, userSocketMap, connected, rooms, trace, track, triggered, clientVars>>
    /\ inbox' = Queued(out')
    /\ UNCHANGED pending

DirectoryCreated(s, d) ==
    RoomBroadcast(s, "directory-created", "directory-created", [data |-> d])

DirectoryUpdated(s, d) ==
    RoomBroadcast(s, "directory-updated", "directory-updated", [data |-> d])

DirectoryRenamed(s, d) ==
    RoomBroadcast(s, "directory-renamed", "directory-renamed", [data |-> d])

DirectoryDeleted(s, d) ==
    RoomBroadcast(s, "directory-deleted", "directory-deleted", [data |-> d])

FileCreated(s, d) ==
    RoomBroadcast(s, "file-created", "file-created", [data |-> d])

FileUpdated(s, d) ==
    RoomBroadcast(s, "file-updated", "file-updated", [data |-> d])

FileRenamed(s, d) ==
    RoomBroadcast(s, "file-renamed", "file-renamed", [data |-> d])

FileDeleted(s, d) ==
    RoomBroadcast(s, "file-deleted", "file-deleted", [data |-> d])

SendMessage(s, d) ==
    RoomBroadcast(s, "send-message", "receive-message", [data |-> d])

DrawingUpdate(s, d) ==
    RoomBroadcast(s, "drawing-update", "drawing-update", [data |-> d])

RequestDrawing(s) ==
    RoomBroadcast(s, "request-drawing", "request-drawing", [socketId |-> s])

\* The events the room-broadcast handlers receive.
RoomEvents ==
    {"directory-created", "directory-updated", "directory-renamed",
     "directory-deleted", "file-created", "file-updated", "file-renamed",
     "file-deleted", "send-message", "drawing-update", "request-drawing"}

\* The event each of them emits.
EmittedAs(ev) == IF ev = "send-message" THEN "receive-message" ELSE ev

\* ------------------------------------------------------------------ unicasts
\* SYNC_FILE_STRUCTURE: io.to(socketId).emit, whatever the sender is.
SyncFileStructure(s, socketId, d) ==
    /\ Serving(s)
    /\ last' = Ran(Op("sync-file-structure", s, "-", "-", socketId, -1))
    /\ out' = Emitted(IoTo(NoOut, rooms, socketId,
                           Msg("sync-file-structure", [data |-> d])))
    /\ UNCHANGED <<variant, userSocketMap, connected, rooms, crashed, trace, track, triggered, clientVars>>
    /\ inbox' = Queued(out')
    /\ UNCHANGED pending

\* SYNC_DRAWING: socket.broadcast.to(socketId).emit.
SyncDrawing(s, socketId, d) ==
    /\ Serving(s)
    /\ last' = Ran(Op("sync-drawing", s, "-", "-", socketId, -1))
    /\ out' = Emitted(BroadcastTo(NoOut, rooms, s, socketId,
                                  Msg("sync-drawing", [data |-> d])))
    /\ UNCHANGED <<variant, userSocketMap, connected, rooms, crashed, trace, track, triggered, clientVars>>
    /\ inbox' = Queued(out')
    /\ UNCHANGED pending

\* ------------------------------------------------------------------ presence
SetOffline(user) == [user EXCEPT !.status = OFFLINE]

SetOnline(user) == [user EXCEPT !.status = ONLINE]

\* The common body of USER_OFFLINE / USER_ONLINE: the named rows are already
\* updated in map1; relay to the room of the named socket, sender excluded.
PresenceChange(s, ev, socketId, map1) ==
    /\ Serving(s)
    /\ last' = Ran(Op(ev, s, "-", "-", socketId, -1))
    /\ userSocketMap' = map1
    /\ IF GetRoomIdThrows(map1, socketId)
       THEN /\ crashed' = TRUE
            /\ out' = Emitted(NoOut)
       ELSE /\ crashed' = crashed
            /\ LET roomId == getRoomId(map1, socketId)
               IN  IF roomId = Null
                   THEN out' = Emitted(NoOut)
                   ELSE out' = Emitted(BroadcastTo(NoOut, rooms, s, roomId,
                                           Msg(ev, [socketId |-> socketId])))
    /\ UNCHANGED <<variant, connected, rooms, trace, track, triggered, clientVars>>
    /\ inbox' = Queued(out')
    /\ UNCHANGED pending

UserOffline(s, socketId) ==
    PresenceChange(s, "user-offline", socketId,
                   MapRows(userSocketMap, socketId, SetOffline))

UserOnline(s, socketId) ==
    PresenceChange(s, "user-online", socketId,
                   MapRows(userSocketMap, socketId, SetOnline))

\* ------------------------------------------------------------------ typing
\* TypingRelay emitting before the registry is written: the payload is the
\* sender's row as it was when the event arrived.
TypingRelayStale(s, ev, map1) ==
    /\ userSocketMap' = map1
    /\ IF ~HasRow(userSocketMap, s)
       THEN out' = Emitted(NoOut)
       ELSE out' = Emitted(BroadcastTo(NoOut, rooms, s,
                               getUserBySocketId(userSocketMap, s).roomId,
                               Msg(ev, [user |-> getUserBySocketId(userSocketMap, s)])))
    /\ UNCHANGED <<variant, connected, rooms, crashed, trace, track, triggered, clientVars>>
    /\ inbox' = Queued(out')
    /\ UNCHANGED pending

\* TypingRelay copying the sender's typing flag to every row of its room.
TypingRelayWholeRoom(s, ev, map1) ==
    /\ userSocketMap' =
           IF ~HasRow(map1, s) THEN map1
           ELSE [i \in 1..Len(map1) |->
                    IF map1[i].roomId = getUserBySocketId(map1, s).roomId
                    THEN [map1[i] EXCEPT
                              !.typing = getUserBySocketId(map1, s).typing]
                    ELSE map1[i]]
    /\ IF ~HasRow(map1, s)
       THEN out' = Emitted(NoOut)
       ELSE out' = Emitted(BroadcastTo(NoOut, rooms, s,
                               getUserBySocketId(map1, s).roomId,
                               Msg(ev, [user |-> getUserBySocketId(map1, s)])))
    /\ UNCHANGED <<variant, connected, rooms, crashed, trace, track, triggered, clientVars>>
    /\ inbox' = Queued(out')
    /\ UNCHANGED pending

\* The common tail of TYPING_START / TYPING_PAUSE: the registry is already
\* updated to map1; relay the sender's (first) row to its room.
TypingRelay(s, ev, map1) ==
    /\ userSocketMap' = map1
    /\ IF ~HasRow(map1, s)
       THEN out' = Emitted(NoOut)
       ELSE LET user == getUserBySocketId(map1, s)
            IN  IF GetRoomIdThrows(map1, s)
                THEN out' = Emitted(NoOut)   \* part_001: thrown and caught
                ELSE out' = Emitted(BroadcastTo(NoOut, rooms, s, user.roomId,
                                                Msg(ev, [user |-> user])))
    /\ UNCHANGED <<variant, connected, rooms, crashed, trace, track, triggered, clientVars>>
    /\ inbox' = Queued(out')
    /\ UNCHANGED pending

TypingStart(s, cursorPosition) ==
    /\ Serving(s)
    /\ last' = Ran(Op("typing-start", s, "-", "-", "-", cursorPosition))
    /\ TypingRelay(s, "typing-start",
           MapRows(userSocketMap, s,
                   LAMBDA u : [u EXCEPT !.typing = TRUE,
                                        !.cursorPosition = cursorPosition]))

TypingPause(s) ==
    /\ Serving(s)
    /\ last' = Ran(Op("typing-pause", s, "-", "-", "-", -1))
    /\ TypingRelay(s, "typing-pause",
           MapRows(userSocketMap, s, LAMBDA u : [u EXCEPT !.typing = FALSE]))

\* ------------------------------------------------------------------ Pusher client
\* pusher.subscribe(`presence-${roomId}`): the channel the client listens on.
ClientChannel(roomId) == "presence-" \o roomId

\* joinRoom(roomId, username) up to its await: the client sends
\* POST /api/join-room.
ClientJoinRoom(c, roomId, username) ==
    /\ pusherClient[c].request = NoRequest
    /\ pusherClient' = [pusherClient EXCEPT
           ![c].request = [roomId |-> roomId, username |-> username]]
    /\ UNCHANGED <<serverVars, provider, db>>

\* The server receives the request the client has sent.
ServeJoinRoom(c) ==
    /\ pusherClient[c].request # NoRequest
    /\ PusherJoinRoom(c, pusherClient[c].request.roomId,
                      pusherClient[c].request.username)

\* joinRoom after the response has arrived: 400 with 'Username already
\* exists' sets status INITIAL; any other error goes to handleError
\* (CONNECTION_FAILED); on success the client subscribes to the presence
\* channel of the room and binds its handlers.  Events triggered before the
\* subscription are not delivered to it.
ClientJoinResponse(c) ==
    /\ pusherClient[c].request # NoRequest
    /\ ~pusherClient[c].answered
    /\ Len(inbox[c]) > 0
    /\ LET ev == inbox[c][1].ev
       IN  pusherClient' = [pusherClient EXCEPT ![c] =
               IF ev = "200"
               THEN [@ EXCEPT !.answered = TRUE,
                              !.channel =
                                  ClientChannel(pusherClient[c].request.roomId),
                              !.since = Len(triggered),
                              !.read = Len(triggered)]
               ELSE [@ EXCEPT !.answered = TRUE,
                              !.status = IF ev = "400" THEN "INITIAL"
                                         ELSE "CONNECTION_FAILED"]]
    /\ UNCHANGED <<serverVars, provider, db>>

\* The handlers bound to the room channel, applied to one event.
OnChannelEvent(cl, e) ==
    IF e.ev = "user-joined"
    THEN [cl EXCEPT !.users = Append(@, e.user)]
    ELSE IF e.ev = "user-disconnected"
    THEN [cl EXCEPT !.users =
              SelectSeq(@, LAMBDA u : u.socketId # e.user.socketId)]
    ELSE IF e.ev = "join-accepted"
    THEN [cl EXCEPT !.currentUser = e.user, !.users = e.users,
                    !.status = "JOINED"]
    ELSE cl

\* The events triggered on the client's channel it has not received yet.
Undelivered(c) ==
    {i \in (pusherClient[c].read + 1)..Len(triggered) :
        triggered[i].channel = pusherClient[c].channel}

\* Pusher delivers the next event of the subscribed channel to the client.
ClientReceive(c) ==
    /\ pusherClient[c].channel # Null
    /\ Undelivered(c) # {}
    /\ LET i == Min(Undelivered(c))
       IN  pusherClient' = [pusherClient EXCEPT ![c] =
               [OnChannelEvent(@, triggered[i]) EXCEPT !.read = i]]
    /\ UNCHANGED <<serverVars, provider, db>>

\* ------------------------------------------------------------------ connectToDatabase
\* The catch block with a retry test that lets one more call through.
DbCatchOneMore(d, error) ==
    [d EXCEPT
        !.isConnected = FALSE,
        !.errors = Append(@, error),
        !.pc = IF d.retryCount < MAX_RETRIES THEN "waiting" ELSE "thrown",
        !.thrown = IF d.retryCount < MAX_RETRIES THEN @ ELSE error,
        !.waited = IF d.retryCount < MAX_RETRIES
                   THEN Append(@, RETRY_DELAY * 2^d.retryCount) ELSE @]

\* The catch block: isConnected is cleared; while retryCount < MAX_RETRIES - 1
\* the call awaits RETRY_DELAY * 2^retryCount ms, otherwise it rethrows.
DbCatch(d, error) ==
    [d EXCEPT
        !.isConnected = FALSE,
        !.errors = Append(@, error),
        !.pc = IF d.retryCount < MAX_RETRIES - 1 THEN "waiting" ELSE "thrown",
        !.thrown = IF d.retryCount < MAX_RETRIES - 1 THEN @ ELSE error,
        !.waited = IF d.retryCount < MAX_RETRIES - 1
                   THEN Append(@, RETRY_DELAY * 2^d.retryCount) ELSE @]

\* connectToDatabase(retryCount) up to its first await: the early return,
\* the missing MONGODB_URI, and the close of a connection that is not
\* disconnected.
DbEnter(d, retryCount) ==
    IF d.isConnected /\ d.readyState = 1
    THEN [d EXCEPT !.pc = "returned", !.retryCount = retryCount]
    ELSE LET t == [d EXCEPT !.retryCount = retryCount, !.attempts = @ + 1]
         IN  IF ~t.mongoUri THEN DbCatch(t, "MONGODB_URI is not defined")
             ELSE IF t.readyState # 0 THEN [t EXCEPT !.pc = "closing"]
             ELSE [t EXCEPT !.pc = "connecting"]

\* A top-level call connectToDatabase(); the server awaits one call before
\* it makes the next.
ConnectToDatabase ==
    /\ db.pc \in {"idle", "returned", "thrown"}
    /\ db' = DbEnter([db EXCEPT !.attempts = 0, !.waited = << >>,
                               !.errors = << >>, !.thrown = Null,
                               !.wasReady = db.isConnected /\ db.readyState = 1],
                     0)
    /\ UNCHANGED <<serverVars, pusherClient, provider>>

\* await mongoose.connection.close() has settled, leaving readyState rs
\* when it rejected.
DbCloseSettled(ok, rs) ==
    /\ db.pc = "closing"
    /\ db' = IF ok
             THEN [db EXCEPT !.readyState = 0, !.isConnected = FALSE,
                             !.pc = "connecting"]
             ELSE DbCatch([db EXCEPT !.readyState = rs], "close rejected")
    /\ UNCHANGED <<serverVars, pusherClient, provider>>

\* await mongoose.connect(...) has settled, leaving readyState rs: the call
\* returns with isConnected set when it resolved with readyState 1.
DbConnectSettled(ok, rs) ==
    /\ db.pc = "connecting"
    /\ db' = IF ok /\ rs = 1
             THEN [db EXCEPT !.readyState = rs, !.isConnected = TRUE,
                             !.pc = "returned"]
             ELSE DbCatch([db EXCEPT !.readyState = rs],
                          IF ok THEN "Connection not ready after connect"
                          ELSE "connect rejected")
    /\ UNCHANGED <<serverVars, pusherClient, provider>>

\* The awaited delay is over: return connectToDatabase(retryCount + 1).
DbDelayElapsed ==
    /\ db.pc = "waiting"
    /\ db' = DbEnter(db, db.retryCount + 1)
    /\ UNCHANGED <<serverVars, pusherClient, provider>>

\* mongoose changes readyState when the connection drops or comes back
\* while no call is at its close or connect.
DbReadyStateChanges(rs) ==
    /\ db.pc \notin {"closing", "connecting"}
    /\ db.readyState # rs
    /\ db' = [db EXCEPT !.readyState = rs]
    /\ UNCHANGED <<serverVars, pusherClient, provider>>

\* ------------------------------------------------------------------ client roster
\* The listeners joinRoom registers on the socket (part_007): join-accepted
\* sets users, user-joined appends the user, user-disconnected filters the
\* list by socketId.
OnSocketEvent(users, e) ==
    IF e.ev = "join-accepted" THEN e.payload.users
    ELSE IF e.ev = "user-joined" THEN Append(users, e.payload.user)
    ELSE IF e.ev = "user-disconnected"
    THEN SelectSeq(users, LAMBDA u : u.socketId # e.payload.user.socketId)
    ELSE users

\* The users state after the deliveries ib, handled in their order.
RECURSIVE UsersAfter(_, _)
UsersAfter(users, ib) ==
    IF ib = << >> THEN users
    ELSE UsersAfter(OnSocketEvent(users, Head(ib)), Tail(ib))

\* ------------------------------------------------------------------ SocketProvider
\* The pending timers are a bag: timers[t] is the number of pending timers
\* equal to t.  A timer records what its callback does (kind), the ref that
\* still holds its id (ref), the socket its closure holds (sock) and its
\* delay in ms.
NoTimers == [t \in {} |-> 0]

Timer(kind, ref, sock, delay) ==
    [kind |-> kind, ref |-> ref, sock |-> sock, delay |-> delay]

RECURSIVE TimerCount(_)
TimerCount(b) ==
    IF DOMAIN b = {} THEN 0
    ELSE LET t == CHOOSE x \in DOMAIN b : TRUE
         IN  b[t] + TimerCount([x \in DOMAIN b \ {t} |-> b[x]])

\* someRef.current = setTimeout(...): the ref forgets the timer it held.
Unref(b, ref) ==
    LET Freed(t) == [t EXCEPT !.ref = IF @ = ref THEN "none" ELSE @]
        Copies(t) == IF t \in DOMAIN b THEN b[t] ELSE 0
    IN  [t \in {Freed(x) : x \in DOMAIN b} |->
            Copies(t) + (IF t.ref = "none"
                         THEN Copies([t EXCEPT !.ref = ref]) ELSE 0)]

\* setTimeout(callback, delay)
SetTimeout(b, t) ==
    LET held == IF t.ref = "none" THEN b ELSE Unref(b, t.ref)
    IN  IF t \in DOMAIN held
        THEN [held EXCEPT ![t] = @ + 1]
        ELSE [x \in DOMAIN held \cup {t} |-> IF x = t THEN 1 ELSE held[x]]

\* The timer has fired, or clearTimeout(id).
ClearTimeout(b, t) ==
    IF b[t] > 1 THEN [b EXCEPT ![t] = @ - 1]
    ELSE [x \in DOMAIN b \ {t} |-> b[x]]

\* Math.min(1000 * Math.pow(2, retryAttempts), 5000)
RetryDelay(retryAttempts) == Min({1000 * 2^retryAttempts, 5000})

\* socketRef.current?.connected
SocketConnected(p) ==
    p.socketRef # 0 /\ p.sockets[p.socketRef].state = "open"

\* cleanup keeping the socket it should close.
CleanupKeepsSocket(p) ==
    [p EXCEPT
        !.timers = [t \in {x \in DOMAIN p.timers : x.ref = "none"} |-> p.timers[t]],
        !.socketRef = 0]

\* cleanup(): clears the timers the two refs hold, removes the listeners of
\* socketRef.current, closes it and forgets it.
Cleanup(p) ==
    [p EXCEPT
        !.timers = [t \in {x \in DOMAIN p.timers : x.ref = "none"} |-> p.timers[t]],
        !.sockets = [i \in 1..Len(p.sockets) |->
                        IF i = p.socketRef
                        THEN [state |-> "closed", listeners |-> FALSE]
                        ELSE p.sockets[i]],
        !.socketRef = 0]

\* The catch block of initializeSocket.
InitializeFailed(p) ==
    IF ~p.isMountedRef THEN [p EXCEPT !.lastRun.init = "threw"]
    ELSE IF p.file = Part006
    THEN [p EXCEPT
             !.status = "error", !.isConnected = FALSE,
             !.isInitializedRef = FALSE,
             !.timers = SetTimeout(@, Timer("retry", "none", 0,
                                            RetryDelay(p.retryAttemptsRef))),
             !.retryAttemptsRef = @ + 1,
             !.lastRun.init = "threw",
             !.lastRun.delay = RetryDelay(p.retryAttemptsRef)]
    ELSE [p EXCEPT
             !.status = "error", !.isConnected = FALSE,
             !.isInitializedRef = FALSE,
             !.timers = SetTimeout(@, Timer("retry", "none", 0, 5000)),
             !.lastRun.init = "threw",
             !.lastRun.delay = 5000]

\* The try block of initializeSocket after its guards: cleanup, a new
\* socket with the four listeners, socketRef, and connect().
InitializeCreates(p, io) ==
    LET q == Cleanup(p)
        n == Len(q.sockets) + 1
    IN  IF io = "throws"
        THEN InitializeFailed(
                 IF p.file = Part006 THEN [q EXCEPT !.retryAttemptsRef = 0] ELSE q)
        ELSE LET created ==
                     IF p.file = Part006
                     THEN [q EXCEPT
                              !.retryAttemptsRef = 0,
                              !.status = "connecting",
                              !.sockets = Append(@, [state |-> "connecting",
                                                     listeners |-> TRUE]),
                              !.socketRef = n,
                              !.timers = SetTimeout(@,
                                  Timer("connectionTimeout", "none", n, 20000)),
                              !.lastRun.init = "created"]
                     ELSE [q EXCEPT
                              !.status = "connecting",
                              !.sockets = Append(@, [state |-> "connecting",
                                                     listeners |-> TRUE]),
                              !.socketRef = n,
                              !.isInitializedRef = TRUE,
                              !.lastRun.init = "created"]
             IN  IF io = "connect throws"
                 THEN InitializeFailed([created EXCEPT !.sockets[n].state = "closed"])
                 ELSE created

\* initializeSocket without its unmounted guard.
InitializeSocketUnguarded(p, io) ==
    IF (p.file = Part006 /\ SocketConnected(p))
           \/ (p.file = SocketContextTsx /\ p.isInitializedRef)
    THEN [p EXCEPT !.lastRun.init = "skipped"]
    ELSE InitializeCreates(p, io)

\* initializeSocket(): part_006 returns when the provider is unmounted or
\* the current socket is connected; SocketContext.tsx returns when the
\* provider is unmounted or isInitializedRef is set.
InitializeSocket(p, io) ==
    IF ~p.isMountedRef
           \/ (p.file = Part006 /\ SocketConnected(p))
           \/ (p.file = SocketContextTsx /\ p.isInitializedRef)
    THEN [p EXCEPT !.lastRun.init = "skipped"]
    ELSE InitializeCreates(p, io)

\* The handler that ran last, for the observations.
Running(p, event) ==
    [p EXCEPT !.lastRun = [event |-> event, init |-> "none", delay |-> 0]]

\* The effect of the provider runs: isMountedRef is set and, unless
\* isInitializedRef is set, initializeSocket is scheduled 100 ms later.  A
\* production build runs the effect once; a development build runs it
\* again after its cleanup, with the refs and the state it left.
Mount ==
    /\ ~provider.mounted
    /\ provider.isDevelopment \/ ~provider.effectRan
    /\ TimerCount(provider.timers) < MaxTimers
    /\ LET p == [Running(provider, "mount") EXCEPT
                    !.mounted = TRUE, !.isMountedRef = TRUE, !.effectRan = TRUE]
       IN  provider' =
               IF p.isInitializedRef THEN p
               ELSE [p EXCEPT !.timers =
                        SetTimeout(@, Timer("init", "initializationTimeoutRef", 0, 100))]
    /\ UNCHANGED <<serverVars, pusherClient, db>>

\* The cleanup of the effect: isMountedRef is cleared, cleanup() runs, and
\* outside development isInitializedRef is cleared.
Unmount ==
    /\ provider.mounted
    /\ LET p == Cleanup([Running(provider, "unmount") EXCEPT
                            !.mounted = FALSE, !.isMountedRef = FALSE])
       IN  provider' =
               IF p.isDevelopment THEN p ELSE [p EXCEPT !.isInitializedRef = FALSE]
    /\ UNCHANGED <<serverVars, pusherClient, db>>

\* newSocket.disconnect() of the connection timeout.
Disconnected(p, i) ==
    [p EXCEPT !.sockets[i].state = "closed"]

\* A pending timer fires and its callback runs.
TimerFires(t, io) ==
    /\ t \in DOMAIN provider.timers
    /\ Len(provider.sockets) < MaxSockets
    /\ TimerCount(provider.timers) <= MaxTimers
    /\ LET p == [Running(provider, t.kind) EXCEPT !.timers = ClearTimeout(@, t)]
       IN  provider' =
               IF t.kind = "init" THEN InitializeSocket(p, io)
               ELSE IF t.kind = "reconnect"
               THEN IF ~p.isMountedRef THEN p
                    ELSE InitializeSocket(
                             IF p.file = Part006
                             THEN [p EXCEPT !.retryAttemptsRef = @ + 1]
                             ELSE p, io)
               ELSE IF t.kind = "retry"
               THEN IF ~p.isMountedRef THEN p ELSE InitializeSocket(p, io)
               ELSE IF p.sockets[t.sock].state = "open" THEN p
               ELSE InitializeSocket(Disconnected(p, t.sock), io)
    /\ UNCHANGED <<serverVars, pusherClient, db>>

\* The socket's connect event: handleConnect and, in part_006, the
\* once('connect') listener that clears the connection timeout.
SocketConnect(i) ==
    /\ i \in 1..Len(provider.sockets)
    /\ provider.sockets[i].state = "connecting"
    /\ provider.sockets[i].listeners
    /\ LET p == [Running(provider, "connect") EXCEPT !.sockets[i].state = "open"]
           q == IF ~p.isMountedRef \/ p.socketRef = 0 THEN p
                ELSE IF p.file = Part006
                THEN [p EXCEPT !.retryAttemptsRef = 0, !.isConnected = TRUE,
                               !.status = "connected",
                               !.isInitializedRef = TRUE, !.failures = 0]
                ELSE [p EXCEPT !.isConnected = TRUE, !.status = "connected",
                               !.failures = 0]
           T == Timer("connectionTimeout", "none", i, 20000)
       IN  provider' =
               IF p.file = Part006
               THEN [q EXCEPT !.retryAttemptsRef = 0,
                              !.timers = IF T \in DOMAIN @
                                         THEN ClearTimeout(@, T) ELSE @]
               ELSE q
    /\ UNCHANGED <<serverVars, pusherClient, db>>

\* The socket's disconnect event and handleDisconnect.  Socket.IO goes on
\* reconnecting by itself unless the server asked for the disconnect.
SocketDisconnect(i, reason) ==
    /\ i \in 1..Len(provider.sockets)
    /\ provider.sockets[i].state = "open"
    /\ provider.sockets[i].listeners
    /\ provider.failures < MaxFailures
    /\ TimerCount(provider.timers) < MaxTimers
    /\ LET p == [Running(provider, "disconnect") EXCEPT
                    !.sockets[i].state =
                        IF reason = "io server disconnect" THEN "closed"
                        ELSE "connecting"]
           delay == IF p.file = Part006 THEN RetryDelay(p.retryAttemptsRef)
                    ELSE 2000
           q == [p EXCEPT !.isConnected = FALSE, !.status = "disconnected",
                          !.failures = @ + 1,
                          !.isInitializedRef =
                              IF p.file = Part006 THEN FALSE ELSE @]
       IN  provider' =
               IF ~p.isMountedRef THEN p
               ELSE IF reason \in DisconnectReasons
               THEN [q EXCEPT
                        !.timers = SetTimeout(@, Timer("reconnect",
                                       "reconnectTimeoutRef", 0, delay)),
                        !.lastRun.delay = delay]
               ELSE q
    /\ UNCHANGED <<serverVars, pusherClient, db>>

\* The socket's error event and handleError.
SocketError(i) ==
    /\ i \in 1..Len(provider.sockets)
    /\ provider.sockets[i].state \in {"connecting", "open"}
    /\ provider.sockets[i].listeners
    /\ provider.failures < MaxFailures
    /\ TimerCount(provider.timers) < MaxTimers
    /\ LET p == Running(provider, "error")
           q == [p EXCEPT !.status = "error", !.isConnected = FALSE,
                          !.failures = @ + 1]
       IN  provider' =
               IF ~p.isMountedRef THEN p
               ELSE IF p.file = Part006
               THEN [q EXCEPT
                        !.isInitializedRef = FALSE,
                        !.timers = SetTimeout(@, Timer("retry", "none", 0,
                                                  RetryDelay(p.retryAttemptsRef))),
                        !.lastRun.delay = RetryDelay(p.retryAttemptsRef),
                        !.retryAttemptsRef = @ + 1]
               ELSE [q EXCEPT
                        !.timers = SetTimeout(@, Timer("retry", "none", 0, 2000)),
                        !.lastRun.delay = 2000]
    /\ UNCHANGED <<serverVars, pusherClient, db>>

\* The socket's connect_error event and handleConnectError; Socket.IO goes
\* on trying to connect.  SocketContext.tsx schedules a retry only for a
\* timeout on the websocket transport.
SocketConnectError(i, message) ==
    /\ i \in 1..Len(provider.sockets)
    /\ provider.sockets[i].state = "connecting"
    /\ provider.sockets[i].listeners
    /\ provider.failures < MaxFailures
    /\ TimerCount(provider.timers) < MaxTimers
    /\ LET p == Running(provider, "connect_error")
           q == [p EXCEPT !.status = "error", !.isConnected = FALSE,
                          !.failures = @ + 1]
       IN  provider' =
               IF ~p.isMountedRef THEN p
               ELSE IF p.file = Part006
               THEN [q EXCEPT
                        !.isInitializedRef = FALSE,
                        !.retryAttemptsRef = @ + 1,
                        !.timers = SetTimeout(@, Timer("retry", "none", 0,
                                        RetryDelay(p.retryAttemptsRef + 1))),
                        !.lastRun.delay = RetryDelay(p.retryAttemptsRef + 1)]
               ELSE IF message = "timeout on websocket"
               THEN [q EXCEPT
                        !.timers = SetTimeout(@, Timer("retry", "none", 0, 2000)),
                        !.lastRun.delay = 2000]
               ELSE q
    /\ UNCHANGED <<serverVars, pusherClient, db>>

\* emit(event, data) of the context value: the event goes out only when
\* socketRef.current is connected; otherwise it is logged and dropped.
Emit ==
    /\ provider.passed < MaxEmits
    /\ LET p == [Running(provider, "emit") EXCEPT !.passed = @ + 1]
       IN  provider' =
               IF SocketConnected(p)
               THEN [p EXCEPT !.sent = Append(@, p.passed)]
               ELSE p
    /\ UNCHANGED <<serverVars, pusherClient, db>>

\* ------------------------------------------------------------------ specifications
\* The registry is explored up to n rows: a join-request that would push
\* one more is left out (one that is rejected pushes nothing).
WithinCap(n, roomId, username) ==
    Len(userSocketMap) < n \/ isUsernameExist(roomId, username)

\* Join and leave.
NextJoin ==
    \/ \E s \in Sockets, r \in JoinRoomIds, u \in JoinUsernames :
          WithinCap(MaxRows, r, u) /\ JoinRequest(s, r, u)
    \/ \E s \in Sockets : Disconnecting(s)

\* The presence protocol: join, leave and the status handlers.
Next ==
    \/ \E s \in Sockets, r \in RoomIds, u \in Usernames :
          WithinCap(MaxRows, r, u) /\ JoinRequest(s, r, u)
    \/ \E s \in Sockets : Disconnecting(s)
    \/ \E s \in Sockets, t \in TargetIds : UserOffline(s, t)
    \/ \E s \in Sockets, t \in TargetIds : UserOnline(s, t)

\* The presence protocol over room ids that are no connection's id.
NextPresence ==
    \/ \E s \in Sockets, r \in PlainRoomIds, u \in Usernames :
          WithinCap(MaxRows, r, u) /\ JoinRequest(s, r, u)
    \/ \E s \in Sockets : Disconnecting(s)
    \/ \E s \in Sockets, t \in TargetIds : UserOffline(s, t)
    \/ \E s \in Sockets, t \in TargetIds : UserOnline(s, t)

\* Join, leave and the typing handlers.
NextTyping ==
    \/ \E s \in Sockets, r \in JoinRoomIds, u \in Usernames :
          WithinCap(MaxRows, r, u) /\ JoinRequest(s, r, u)
    \/ \E s \in Sockets : Disconnecting(s)
    \/ \E s \in Sockets, p \in CursorPositions : TypingStart(s, p)
    \/ \E s \in Sockets : TypingPause(s)

\* Every handler that writes the registry, out and last recorded, over the
\* members of one room.
NextRoster ==
    \/ \E s \in Sockets, u \in Usernames :
          WithinCap(MaxRows, "r1", u) /\ JoinRequest(s, "r1", u)
    \/ \E s \in Sockets : Disconnecting(s)
    \/ \E s \in Sockets, t \in Sockets : UserOffline(s, t)
    \/ \E s \in Sockets, t \in Sockets : UserOnline(s, t)
    \/ \E s \in Sockets, p \in CursorPositions : TypingStart(s, p)
    \/ \E s \in Sockets : TypingPause(s)

\* Join, leave and the unicast handlers.
NextSync ==
    \/ \E s \in Sockets, r \in JoinRoomIds, u \in Usernames :
          WithinCap(MaxRows, r, u) /\ JoinRequest(s, r, u)
    \/ \E s \in Sockets : Disconnecting(s)
    \/ \E s \in Sockets, t \in SyncTargetIds, d \in Payloads :
          SyncFileStructure(s, t, d)
    \/ \E s \in Sockets, t \in SyncTargetIds, d \in Payloads :
          SyncDrawing(s, t, d)

\* Join and leave in one room, with the persistence call of each join
\* followed to its resolution or rejection.
NextAwait ==
    \/ \E s \in Sockets, u \in Usernames :
          WithinCap(MaxRows, "r1", u) /\ JoinRequest(s, "r1", u)
    \/ \E s \in Sockets : Disconnecting(s)
    \/ \E call \in pending : UserModelCreateSettled(call, TRUE)
    \/ \E call \in pending : UserModelCreateSettled(call, FALSE)

\* Join, leave and chat in one room, every delivery kept in the receiver's
\* inbox.
NextOrder ==
    \/ \E s \in Sockets, u \in JoinUsernames :
          /\ Clock <= MaxEvents
          /\ WithinCap(MaxRows + 1, "r1", u)
          /\ JoinRequest(s, "r1", u)
    \/ \E s \in Sockets : Clock <= MaxEvents /\ Disconnecting(s)
    \/ \E s \in Sockets, d \in Payloads : Clock <= MaxEvents /\ SendMessage(s, d)

\* The Pusher server: join requests of several HTTP clients for one room
\* and one username, interleaved at every await of the handler.
NextPusher ==
    \/ \E c \in Sockets : PusherJoinRoom(c, "r1", "alice")
    \/ \E call \in pending : TriggerUserJoinedSettled(call, TRUE)
    \/ \E call \in pending : TriggerUserJoinedSettled(call, FALSE)
    \/ \E call \in pending : TriggerJoinAcceptedSettled(call, TRUE)
    \/ \E call \in pending : TriggerJoinAcceptedSettled(call, FALSE)
    \/ \E call \in pending : PusherCreateSettled(call, TRUE)
    \/ \E call \in pending : PusherCreateSettled(call, FALSE)

\* Join and typing-start with payloads of any content.
NextCursor ==
    \/ \E s \in Sockets, u \in Usernames :
          WithinCap(MaxRows, "r1", u) /\ JoinRequest(s, "r1", u)
    \/ \E s \in Sockets, p \in RawCursorPositions : TypingStart(s, p)

\* POST /api/join-room and POST /api/leave-room with their awaits.
NextLeave ==
    \/ \E c \in Sockets, r \in PusherRoomIds : PusherJoinRoom(c, r, "alice")
    \/ \E call \in pending : TriggerUserJoinedSettled(call, TRUE)
    \/ \E call \in pending : TriggerUserJoinedSettled(call, FALSE)
    \/ \E call \in pending : TriggerJoinAcceptedSettled(call, TRUE)
    \/ \E call \in pending : TriggerJoinAcceptedSettled(call, FALSE)
    \/ \E call \in pending : PusherCreateSettled(call, TRUE)
    \/ \E call \in pending : PusherCreateSettled(call, FALSE)
    \/ \E c \in Sockets, id \in UserIds : PusherLeaveRoom(c, id)
    \/ \E call \in pending : TriggerUserDisconnectedSettled(call, TRUE)
    \/ \E call \in pending : TriggerUserDisconnectedSettled(call, FALSE)

\* The Pusher clients against POST /api/join-room.
NextPusherClient ==
    \/ \E c \in Sockets : ClientJoinRoom(c, TypedRoomId[c], TypedUsername[c])
    \/ \E c \in Sockets : ServeJoinRoom(c)
    \/ \E call \in pending : TriggerUserJoinedSettled(call, TRUE)
    \/ \E call \in pending : TriggerUserJoinedSettled(call, FALSE)
    \/ \E call \in pending : TriggerJoinAcceptedSettled(call, TRUE)
    \/ \E call \in pending : TriggerJoinAcceptedSettled(call, FALSE)
    \/ \E call \in pending : PusherCreateSettled(call, TRUE)
    \/ \E call \in pending : PusherCreateSettled(call, FALSE)
    \/ \E c \in Sockets : ClientJoinResponse(c)
    \/ \E c \in Sockets : ClientReceive(c)

\* The SocketProvider with its socket's events and its timers.
NextProvider ==
    \/ Mount
    \/ Unmount
    \/ \E t \in DOMAIN provider.timers, io \in IoOutcomes : TimerFires(t, io)
    \/ \E i \in 1..MaxSockets : SocketConnect(i)
    \/ \E i \in 1..MaxSockets, reason \in DisconnectReasons :
          SocketDisconnect(i, reason)
    \/ \E i \in 1..MaxSockets : SocketError(i)
    \/ \E i \in 1..MaxSockets, message \in ConnectErrors :
          SocketConnectError(i, message)
    \/ Emit

\* Joins and disconnects over two rooms, every delivery kept with its
\* payload in the receiver's inbox.
NextMirror ==
    \/ \E s \in Sockets, r \in PlainRoomIds, u \in Usernames :
          /\ Clock <= MaxEvents
          /\ WithinCap(MaxRows + 1, r, u)
          /\ JoinRequest(s, r, u)
    \/ \E s \in Sockets : Clock <= MaxEvents /\ Disconnecting(s)

\* The calls of connectToDatabase and what mongoose answers.
NextDb ==
    \/ ConnectToDatabase
    \/ \E ok \in BOOLEAN, rs \in ReadyStates : DbCloseSettled(ok, rs)
    \/ \E ok \in BOOLEAN, rs \in ReadyStates : DbConnectSettled(ok, rs)
    \/ DbDelayElapsed
    \/ \E rs \in ReadyStates : DbReadyStateChanges(rs)

\* Join, leave and the drawing hand-shake.
NextDrawing ==
    \/ \E s \in Sockets, r \in RoomIds, u \in Usernames :
          WithinCap(MaxRows + 1, r, u) /\ JoinRequest(s, r, u)
    \/ \E s \in Sockets : Disconnecting(s)
    \/ \E s \in Sockets : RequestDrawing(s)
    \/ \E s \in Sockets, t \in Sockets, d \in Payloads : SyncDrawing(s, t, d)

\* Every handler that writes the registry, out and last not recorded.
NextRegistry ==
    \/ \E s \in Sockets, r \in PlainRoomIds, u \in Usernames :
          WithinCap(MaxRows, r, u) /\ JoinRequest(s, r, u)
    \/ \E s \in Sockets : Disconnecting(s)
    \/ \E s \in Sockets, t \in TargetIds : UserOffline(s, t)
    \/ \E s \in Sockets, t \in TargetIds : UserOnline(s, t)
    \/ \E s \in Sockets, p \in CursorPositions : TypingStart(s, p)
    \/ \E s \in Sockets : TypingPause(s)

\* The broadcast router: the room-broadcast handlers, over the memberships
\* that join and leave produce.  (The relay handlers change neither the
\* registry nor the rooms, and read no status, typing or cursor field.)
NextRelay ==
    \/ \E s \in Sockets, r \in RoomIds, u \in Usernames :
          WithinCap(MaxRows, r, u) /\ JoinRequest(s, r, u)
    \/ \E s \in Sockets : Disconnecting(s)
    \/ \E s \in Sockets, d \in Payloads : DirectoryCreated(s, d)
    \/ \E s \in Sockets, d \in Payloads : DirectoryUpdated(s, d)
    \/ \E s \in Sockets, d \in Payloads : DirectoryRenamed(s, d)
    \/ \E s \in Sockets, d \in Payloads : DirectoryDeleted(s, d)
    \/ \E s \in Sockets, d \in Payloads : FileCreated(s, d)
    \/ \E s \in Sockets, d \in Payloads : FileUpdated(s, d)
    \/ \E s \in Sockets, d \in Payloads : FileRenamed(s, d)
    \/ \E s \in Sockets, d \in Payloads : FileDeleted(s, d)
    \/ \E s \in Sockets, d \in Payloads : SendMessage(s, d)
    \/ \E s \in Sockets, d \in Payloads : DrawingUpdate(s, d)
    \/ \E s \in Sockets : RequestDrawing(s)

Spec == Init /\ [][Next]_vars

SpecJoin == Init /\ [][NextJoin]_vars

SpecPresence == Init /\ [][NextPresence]_vars

SpecTyping == Init /\ [][NextTyping]_vars

SpecSync == Init /\ [][NextSync]_vars

SpecAwait == InitAwait /\ [][NextAwait]_vars

SpecOrder == InitOrder /\ [][NextOrder]_vars

InitMirror ==
    variant = ServerTs /\ trace = TRUE /\ track = {"inbox", "payload"} /\ InitCommon

SpecMirror == InitMirror /\ [][NextMirror]_vars

SpecPusher == InitPusher /\ [][NextPusher]_vars

SpecCursor == Init /\ [][NextCursor]_vars

SpecDrawing == Init /\ [][NextDrawing]_vars

SpecLeave == InitPusher /\ [][NextLeave]_vars

SpecPusherClient == InitPusher /\ [][NextPusherClient]_vars

\* The SocketProvider of part_006, in a development or a production build.
InitPart006 ==
    /\ variant = ServerTs /\ trace = FALSE /\ track = {} /\ InitServer
    /\ pusherClient = [c \in Sockets |-> NewPusherClient]
    /\ provider \in {NewProvider(Part006, d) : d \in BOOLEAN}
    /\ db = NewDb(FALSE, 0, TRUE)

\* The Socket.IO SocketProvider of SocketContext.tsx.
InitSocketContext ==
    /\ variant = ServerTs /\ trace = FALSE /\ track = {} /\ InitServer
    /\ pusherClient = [c \in Sockets |-> NewPusherClient]
    /\ provider \in {NewProvider(SocketContextTsx, d) : d \in BOOLEAN}
    /\ db = NewDb(FALSE, 0, TRUE)

SpecProvider == InitPart006 /\ [][NextProvider]_vars

\* The server of part_001 or of server.ts at start: isConnected false, any
\* readyState, MONGODB_URI set or not.
InitDb ==
    /\ variant \in {Part001, PusherTs} /\ trace = FALSE /\ track = {} /\ InitServer
    /\ pusherClient = [c \in Sockets |-> NewPusherClient]
    /\ provider = NewProvider(Part006, FALSE)
    /\ db \in {NewDb(FALSE, rs, uri) : rs \in ReadyStates, uri \in BOOLEAN}

SpecDb == InitDb /\ [][NextDb]_vars

SpecSocketContext == InitSocketContext /\ [][NextProvider]_vars

\* Both providers.
SpecProviders == (InitPart006 \/ InitSocketContext) /\ [][NextProvider]_vars

SpecRegistry == InitQuiet /\ [][NextRegistry]_vars

SpecRoster == Init /\ [][NextRoster]_vars

SpecRelay == Init /\ [][NextRelay]_vars

SpecPart001 == InitPart001 /\ [][NextRelay]_vars

\* The presence protocol served by unnamed/part_001.
SpecPart001Presence == InitPart001 /\ [][NextPresence]_vars

\* ------------------------------------------------------------------ observations
\* The sockets the last handler delivered event ev to.
Recipients(o, ev) ==
    {c \in Sockets : \E i \in 1..Len(o[c]) : o[c][i].ev = ev}

\* How many times the last handler delivered event ev to socket c.
Count(o, c, ev) == Cardinality({i \in 1..Len(o[c]) : o[c][i].ev = ev})

\* The payloads of the deliveries of ev to c all equal payload.
Carries(o, c, ev, payload) ==
    \A i \in 1..Len(o[c]) : o[c][i].ev = ev => o[c][i].payload = payload

\* The sockets that have a row in room roomId.
Members(map, roomId) ==
    {map[i].socketId : i \in {j \in 1..Len(map) : map[j].roomId = roomId}}

\* ------------------------------------------------------------------ claims
\* C1: every accepted join-request into room R appends the new participant
\* to getUsersInRoom(R) and changes no other row, every connection that was
\* already a member of R receives exactly one user-joined event carrying the
\* new participant, and the joining connection receives no user-joined.
\* (By induction over a sequence of joins by distinct connections with
\* distinct usernames, getUsersInRoom(R) is then exactly the joined set.)
C1_JoinRosterAndNotice ==
    [][(last'.op = "join-request"
           /\ ~isUsernameExist(last'.roomId, last'.username)) =>
          LET s == last'.sock
              r == last'.roomId
              user == NewUser(last'.username, r, s)
          IN  /\ userSocketMap' = Append(userSocketMap, user)
              /\ UsersInRoom(userSocketMap', r) = Append(getUsersInRoom(r), user)
              /\ \A c \in Members(userSocketMap, r) \ {s} :
                     /\ Count(out', c, "user-joined") = 1
                     /\ Carries(out', c, "user-joined", [user |-> user])
              /\ Count(out', s, "user-joined") = 0]_vars

\* C1 witness: distinct connections have joined one room under distinct
\* usernames, as many as the registry cap allows; the last join was
\* notified to every earlier member and not to the joiner.
C1_Witness ==
    /\ last.op = "join-request"
    /\ Cardinality(Members(userSocketMap, last.roomId)) = MaxRows
    /\ Len(getUsersInRoom(last.roomId)) = MaxRows
    /\ getUsersInRoom(last.roomId)[Len(getUsersInRoom(last.roomId))].socketId
           = last.sock
    /\ \A c \in Members(userSocketMap, last.roomId) \ {last.sock} :
           Count(out, c, "user-joined") = 1
    /\ Count(out, last.sock, "user-joined") = 0

\* Some member of room roomId with status ONLINE has the username.
OnlineNameTaken(map, roomId, username) ==
    \E i \in 1..Len(map) :
        /\ map[i].roomId = roomId
        /\ map[i].username = username
        /\ map[i].status = ONLINE

\* Some member of room roomId, whatever its status, has the username.
NameTaken(map, roomId, username) ==
    \E i \in 1..Len(map) : map[i].roomId = roomId /\ map[i].username = username

\* C2: a join-request into room R whose username is that of a participant
\* ONLINE in R leaves the registry unchanged, sends username-exists to the
\* requesting connection only, and emits no user-joined and no join-accepted.
C2_DuplicateRejectedToRequesterOnly ==
    [][(last'.op = "join-request"
           /\ OnlineNameTaken(userSocketMap, last'.roomId, last'.username)) =>
          /\ userSocketMap' = userSocketMap
          /\ Recipients(out', "username-exists") = {last'.sock}
          /\ Recipients(out', "user-joined") = {}
          /\ Recipients(out', "join-accepted") = {}]_vars

\* C3: every accepted join-request sends join-accepted to the joining
\* connection and to no other; its user is the fresh participant (ONLINE,
\* cursorPosition 0, typing false, currentFile null, the requested room and
\* username, the joiner's id) and its users is the room's full membership
\* after insertion, the joiner included.
C3_JoinAcceptedToJoinerOnly ==
    [][(last'.op = "join-request"
           /\ ~isUsernameExist(last'.roomId, last'.username)) =>
          LET s == last'.sock
              user == NewUser(last'.username, last'.roomId, s)
          IN  /\ Recipients(out', "join-accepted") = {s}
              /\ Count(out', s, "join-accepted") = 1
              /\ Carries(out', s, "join-accepted",
                         [user |-> user,
                          users |-> UsersInRoom(userSocketMap', last'.roomId)])
              /\ \E i \in 1..Len(userSocketMap') : userSocketMap'[i] = user]_vars

\* C4: the disconnect of a joined connection C removes exactly one registry
\* row (C's), leaves every other row unchanged, and emits exactly one
\* user-disconnected to each remaining member of C's room and to nobody
\* else, carrying C's participant state at the time of removal.
C4_DisconnectRemovesOneRow ==
    [][(last'.op = "disconnecting" /\ HasRow(userSocketMap, last'.sock)) =>
          LET s == last'.sock
              user == getUserBySocketId(userSocketMap, s)
          IN  /\ Len(userSocketMap') = Len(userSocketMap) - 1
              /\ userSocketMap' = RemoveSocket(userSocketMap, s)
              /\ Recipients(out', "user-disconnected") =
                     Members(userSocketMap', user.roomId)
              /\ \A c \in Recipients(out', "user-disconnected") :
                     /\ Count(out', c, "user-disconnected") = 1
                     /\ Carries(out', c, "user-disconnected", [user |-> user])]_vars

\* C5: a room-broadcast event sent by a connection S that has a registry row
\* in room R is delivered to exactly the connections with a registry row in
\* R other than S.
C5_RelayToRoomMembersExceptSender ==
    [][(last'.op \in RoomEvents) =>
          \A r \in RoomIds :
              last'.sock \in Members(userSocketMap, r) =>
                  Recipients(out', EmittedAs(last'.op)) =
                      Members(userSocketMap, r) \ {last'.sock}]_vars

\* C6: no two registry rows have the same connection id.
C6_OneRowPerConnection ==
    \A i, j \in 1..Len(userSocketMap) :
        userSocketMap[i].socketId = userSocketMap[j].socketId => i = j

\* C7: no room contains two participants with status ONLINE and the same
\* username.
C7_OnlineUsernamesUniquePerRoom ==
    \A i, j \in 1..Len(userSocketMap) :
        (/\ userSocketMap[i].roomId = userSocketMap[j].roomId
         /\ userSocketMap[i].username = userSocketMap[j].username
         /\ userSocketMap[i].status = ONLINE
         /\ userSocketMap[j].status = ONLINE) => i = j

\* C7 witness: a room holds a participant that a user-offline event has set
\* OFFLINE and a second, ONLINE participant that typing-start has marked.
C7_Witness ==
    \E i, j \in 1..Len(userSocketMap) :
        /\ i # j
        /\ userSocketMap[i].roomId = userSocketMap[j].roomId
        /\ userSocketMap[i].status = OFFLINE
        /\ userSocketMap[j].status = ONLINE
        /\ userSocketMap[j].typing

\* C8: a join-request whose roomId is empty is rejected: the requester alone
\* receives a room-required error, no row is inserted, the connection joins
\* no broadcast group, and no user-joined or join-accepted is emitted.
C8_EmptyRoomRejected ==
    [][(last'.op = "join-request" /\ last'.roomId = "") =>
          /\ userSocketMap' = userSocketMap
          /\ rooms' = rooms
          /\ Recipients(out', "room-required") = {last'.sock}
          /\ Recipients(out', "user-joined") = {}
          /\ Recipients(out', "join-accepted") = {}]_vars

\* The JOIN_REQUEST handler rejected: username-exists went to the requester
\* and nothing was inserted.
Rejected(s) ==
    /\ s \in Recipients(out', "username-exists")
    /\ userSocketMap' = userSocketMap

\* C9: a join-request for room R and username U is rejected with
\* username-exists exactly when some member of R whose status is ONLINE has
\* username U (so it is accepted when the only member named U is OFFLINE).
C9_RejectedIffOnlineNameTaken ==
    [][(last'.op = "join-request") =>
          (Rejected(last'.sock) <=>
              OnlineNameTaken(userSocketMap, last'.roomId, last'.username))]_vars

\* C9 as amended: a join-request for room R and username U is rejected with
\* username-exists exactly when some member of R, whatever its status, has
\* username U; otherwise the participant is inserted.
C9_RejectedIffNameTaken ==
    [][(last'.op = "join-request") =>
          /\ Rejected(last'.sock) <=>
                 NameTaken(userSocketMap, last'.roomId, last'.username)
          /\ ~Rejected(last'.sock) =>
                 userSocketMap' =
                     Append(userSocketMap,
                            NewUser(last'.username, last'.roomId, last'.sock))]_vars

\* C9 witness: a join-request was rejected although the only member of the
\* room with that username is OFFLINE.
C9_Witness ==
    /\ last.op = "join-request"
    /\ Count(out, last.sock, "username-exists") = 1
    /\ NameTaken(userSocketMap, last.roomId, last.username)
    /\ ~OnlineNameTaken(userSocketMap, last.roomId, last.username)

\* C10: in both server variants a room-broadcast event from a connection
\* that has no registry row is dropped silently: nothing is delivered, the
\* registry is unchanged, and no exception escapes the handler.
C10_RowlessRelayDropped ==
    [][(last'.op \in RoomEvents /\ ~HasRow(userSocketMap, last'.sock)) =>
          /\ out' = NoOut
          /\ userSocketMap' = userSocketMap
          /\ ~crashed']_vars

\* C11: in every reachable state every registry row's connection id belongs
\* to a connection whose disconnect has not been processed; a connection
\* whose disconnect has been processed never opens again, so after it no row
\* with its id exists and none reappears.
C11_RowsBelongToOpenConnections ==
    /\ [](\A i \in 1..Len(userSocketMap) : userSocketMap[i].socketId \in connected)
    /\ [][connected' \subseteq connected]_vars

\* C11 witness: the disconnect of a joined connection has just been
\* processed (a remaining member was told of it), its row is gone and the
\* registry still holds the rows of open connections.
C11_Witness ==
    /\ last.op = "disconnecting"
    /\ last.sock \notin connected
    /\ ~HasRow(userSocketMap, last.sock)
    /\ Len(userSocketMap) > 0
    /\ \E c \in Sockets : \E i \in 1..Len(out[c]) :
           /\ out[c][i].ev = "user-disconnected"
           /\ out[c][i].payload.user.socketId = last.sock

\* C12: the disconnect of a connection that has no registry row is a no-op:
\* the registry is unchanged and no user-disconnected event is emitted to
\* anyone.
C12_RowlessDisconnectNoOp ==
    [][(last'.op = "disconnecting" /\ ~HasRow(userSocketMap, last'.sock)) =>
          /\ userSocketMap' = userSocketMap
          /\ Recipients(out', "user-disconnected") = {}
          /\ out' = NoOut]_vars

\* C12 witness: a connection has just disconnected while the registry is
\* still full (so the connection held no row: a row-holder's disconnect
\* shortens the registry), and nothing was emitted.
C12_Witness ==
    /\ last.op = "disconnecting"
    /\ last.sock \notin connected
    /\ Len(userSocketMap) = MaxRows
    /\ \A i \in 1..Len(userSocketMap) : userSocketMap[i].socketId \in connected
    /\ out = NoOut

\* The typing event of the step was delivered with the sender's registry row
\* as it is after the step, to every other member of that row's room, once.
TypingDelivered(ev) ==
    LET s == last'.sock
        row == getUserBySocketId(userSocketMap', s)
    IN  /\ \A c \in Members(userSocketMap', row.roomId) \ {s} :
               Count(out', c, ev) = 1
        /\ \A c \in Sockets : Carries(out', c, ev, [user |-> row])

\* C13: for typing-start{cursorPosition: p} and typing-pause sent by a joined
\* connection C, the registry row of C is updated before the broadcast is
\* emitted: the user payload delivered to the other room members has
\* typing = true and cursorPosition = p (typing-start) or typing = false
\* (typing-pause), and equals C's registry row at the moment of emission.
C13_TypingRowUpdatedBeforeBroadcast ==
    [][(last'.op \in {"typing-start", "typing-pause"}
           /\ HasRow(userSocketMap, last'.sock)) =>
          LET s == last'.sock
              row == getUserBySocketId(userSocketMap', s)
          IN  /\ TypingDelivered(last'.op)
              /\ last'.op = "typing-start" =>
                     /\ row.typing = TRUE
                     /\ row.cursorPosition = last'.cursorPosition
              /\ last'.op = "typing-pause" =>
                     /\ row.typing = FALSE
                     /\ row.cursorPosition =
                            getUserBySocketId(userSocketMap, s).cursorPosition
              /\ \A i \in 1..Len(userSocketMap) :
                     userSocketMap[i].socketId # s =>
                         userSocketMap'[i] = userSocketMap[i]]_vars

\* C13 witness: a typing-pause that follows a typing-start of the same
\* connection was delivered to another member, carrying typing = false and
\* the cursor position the typing-start had written.
C13_Witness ==
    /\ last.op = "typing-pause"
    /\ \E c \in Sockets \ {last.sock} : \E i \in 1..Len(out[c]) :
           /\ out[c][i].ev = "typing-pause"
           /\ out[c][i].payload.user.socketId = last.sock
           /\ out[c][i].payload.user.typing = FALSE
           /\ out[c][i].payload.user.cursorPosition \in CursorPositions
           /\ out[c][i].payload.user = getUserBySocketId(userSocketMap, last.sock)

\* The rows of the registry map, as a set.
Rows(map) == {map[i] : i \in 1..Len(map)}

\* Row u after the write that the event of the step makes to the rows of
\* socket t: the value the most recent event gave to typing, cursorPosition
\* or status.
Written(op, u) ==
    CASE op.op = "typing-start" /\ u.socketId = op.sock ->
             [u EXCEPT !.typing = TRUE, !.cursorPosition = op.cursorPosition]
      [] op.op = "typing-pause" /\ u.socketId = op.sock ->
             [u EXCEPT !.typing = FALSE]
      [] op.op = "user-offline" /\ u.socketId = op.target ->
             [u EXCEPT !.status = OFFLINE]
      [] op.op = "user-online" /\ u.socketId = op.target ->
             [u EXCEPT !.status = ONLINE]
      [] OTHER -> u

\* C14: no stale reads.  After any sequence of typing-start, typing-pause,
\* user-online and user-offline events the roster getUsersInRoom(R), the
\* users payload of the join-accepted sent to a later joiner of R and the
\* payload of a later user-disconnected show for every member the value
\* written by the most recent event that changed its typing, cursorPosition
\* or status.  Stated step by step: each such event leaves in the registry
\* the value it wrote, every other step keeps the rows it does not insert or
\* remove, and both payloads are read from the registry of that moment.
C14_NoStaleReads ==
    [][(last'.op # "init") =>
          /\ last'.op \in {"typing-start", "typing-pause",
                           "user-offline", "user-online"} =>
                 /\ Len(userSocketMap') = Len(userSocketMap)
                 /\ \A i \in 1..Len(userSocketMap) :
                        userSocketMap'[i] = Written(last', userSocketMap[i])
          /\ last'.op = "join-request" =>
                 /\ SubSeq(userSocketMap', 1, Len(userSocketMap)) = userSocketMap
                 /\ \A c \in Sockets : \A i \in 1..Len(out'[c]) :
                        out'[c][i].ev = "join-accepted" =>
                            out'[c][i].payload.users =
                                UsersInRoom(userSocketMap', last'.roomId)
          /\ last'.op = "disconnecting" =>
                 /\ Rows(userSocketMap') \subseteq Rows(userSocketMap)
                 /\ \A c \in Sockets : \A i \in 1..Len(out'[c]) :
                        out'[c][i].ev = "user-disconnected" =>
                            /\ out'[c][i].payload.user \in Rows(userSocketMap)
                            /\ out'[c][i].payload.user.socketId = last'.sock]_vars

\* C14 witness: a later joiner has received a roster in which an earlier
\* member shows what typing-start and user-offline wrote to it.
C14_Witness ==
    /\ last.op = "join-request"
    /\ \E i \in 1..Len(out[last.sock]) :
           /\ out[last.sock][i].ev = "join-accepted"
           /\ \E k \in 1..Len(out[last.sock][i].payload.users) :
                  LET m == out[last.sock][i].payload.users[k]
                  IN  /\ m.socketId # last.sock
                      /\ m.typing = TRUE
                      /\ m.cursorPosition \in CursorPositions
                      /\ m.status = OFFLINE

\* C15: user-offline{socketId: T} (resp. user-online) sent by connection S,
\* where T has a registry row in room R, sets T's status to OFFLINE (resp.
\* ONLINE), changes no other field and no other row, and delivers the same
\* event with payload {socketId: T} to every member of R except S.
C15_PresenceSetAndRelayed ==
    [][(last'.op \in {"user-offline", "user-online"}
           /\ HasRow(userSocketMap, last'.target)) =>
          LET S == last'.sock
              T == last'.target
              st == IF last'.op = "user-offline" THEN OFFLINE ELSE ONLINE
          IN  /\ Len(userSocketMap') = Len(userSocketMap)
              /\ \A i \in 1..Len(userSocketMap) :
                     userSocketMap'[i] =
                         IF userSocketMap[i].socketId = T
                         THEN [userSocketMap[i] EXCEPT !.status = st]
                         ELSE userSocketMap[i]
              /\ \A r \in RoomIds \cup PlainRoomIds :
                     T \in Members(userSocketMap, r) =>
                         \A c \in Members(userSocketMap, r) \ {S} :
                             /\ Count(out', c, last'.op) = 1
                             /\ Carries(out', c, last'.op, [socketId |-> T])]_vars

\* C16: the unicast events sync-file-structure and sync-drawing are
\* delivered to the single connection named by the payload's target id and
\* to no other connection, whatever string the sender puts in that field
\* (a room id included) and whichever rooms sender and target are in.
C16_UnicastToTargetOnly ==
    [][(last'.op \in {"sync-file-structure", "sync-drawing"}) =>
          /\ Recipients(out', last'.op) \subseteq {last'.target}
          /\ (last'.target \in connected /\ last'.target # last'.sock) =>
                 Count(out', last'.target, last'.op) = 1]_vars

\* The step is the continuation of a join after UserModel.create settled.
CreateSettledStep == last'.op \in {"create-resolved", "create-rejected"}

\* C18: the outcome of a join-request (the registry, the room membership and
\* the events emitted) is the same whether UserModel.create succeeds, fails
\* or never completes: all of it is produced while the call is still in
\* flight, and the settling of the call, failure included, emits no event
\* and undoes nothing.
C18_JoinOutcomeIndependentOfPersistence ==
    [][/\ (last'.op = "join-request"
             /\ ~isUsernameExist(last'.roomId, last'.username)) =>
              LET s == last'.sock
                  user == NewUser(last'.username, last'.roomId, s)
              IN  /\ UserModelCreate(user) \in pending' \ pending
                  /\ userSocketMap' = Append(userSocketMap, user)
                  /\ rooms' = [rooms EXCEPT ![s] = @ \cup {last'.roomId}]
                  /\ Count(out', s, "join-accepted") = 1
                  /\ \A c \in Members(userSocketMap, last'.roomId) \ {s} :
                         Count(out', c, "user-joined") = 1
       /\ CreateSettledStep =>
              /\ userSocketMap' = userSocketMap
              /\ rooms' = rooms
              /\ connected' = connected
              /\ out' = NoOut
              /\ crashed' = crashed]_vars

\* C18 witness: the persistence call of a join has failed and the joined
\* participant is still in the registry and in its room.
C18_Witness ==
    /\ last.op = "create-rejected"
    /\ \E i \in 1..Len(userSocketMap) :
           userSocketMap[i] = NewUser(last.username, last.roomId, last.sock)
    /\ last.roomId \in rooms[last.sock]
    /\ out = NoOut

\* C19: when connection C's disconnect is processed while the persistence
\* call of C's own join is still pending, the disconnect removes C's row,
\* the later completion of the call (success or failure) changes nothing in
\* the registry and emits nothing, and every lookup of C after the
\* disconnect (getUserBySocketId, getRoomId) finds nothing.
C19_DisconnectDuringPendingPersistence ==
    [][/\ (last'.op = "disconnecting"
             /\ \E call \in pending : call.user.socketId = last'.sock) =>
              /\ ~HasRow(userSocketMap', last'.sock)
              /\ getRoomId(userSocketMap', last'.sock) = Null
              /\ pending' = pending
       /\ (CreateSettledStep /\ last'.sock \notin connected) =>
              /\ userSocketMap' = userSocketMap
              /\ out' = NoOut
              /\ ~HasRow(userSocketMap', last'.sock)
              /\ getRoomId(userSocketMap', last'.sock) = Null]_vars

\* C19 witness: the persistence call of a join has resolved after the
\* joiner's disconnect was processed; the registry, which still holds
\* another participant, has no row of the joiner.
C19_Witness ==
    /\ last.op = "create-resolved"
    /\ last.sock \notin connected
    /\ ~HasRow(userSocketMap, last.sock)
    /\ Len(userSocketMap) > 0
    /\ out = NoOut

Answered == {c \in Sockets : Len(inbox[c]) > 0}

\* The HTTP clients that were answered with the given status.
AnsweredWith(status) ==
    {c \in Sockets : \E i \in 1..Len(inbox[c]) : inbox[c][i].ev = status}

\* C20: for every interleaving of two join requests for the same room and
\* the same username issued by two different clients, interleavings at the
\* handler's await points included, exactly one request is accepted and the
\* other is rejected as username-exists, and the registry ends with exactly
\* one row for that room and username.  (Pusher server, POST /api/join-room:
\* accepted is the 200 answer, username-exists the 400 answer.)
C20_ExactlyOneJoinAccepted ==
    (pending = {} /\ Cardinality(Answered) >= 2) =>
        /\ Cardinality(AnsweredWith("200")) = 1
        /\ AnsweredWith("500") = {}
        /\ Answered \ AnsweredWith("200") \subseteq AnsweredWith("400")
        /\ Len(SelectSeq(userSocketMap,
                         LAMBDA u : u.roomId = "r1" /\ u.username = "alice")) = 1

\* C21: join followed by leave is a round trip on the registry.  An accepted
\* join-request by connection C followed by C's disconnect, with any events
\* of other connections in between, leaves no trace of C: the rows of the
\* others are as they were, a room of which C was the only member is empty
\* again, and a later join-request into that room with C's former username
\* from another connection is accepted.
C21_JoinLeaveRoundTrip ==
    [][/\ (last'.op = "disconnecting" /\ HasRow(userSocketMap, last'.sock)) =>
              /\ userSocketMap' =
                     SelectSeq(userSocketMap, LAMBDA u : u.socketId # last'.sock)
              /\ rooms'[last'.sock] = {}
              /\ \A r \in PlainRoomIds :
                     Members(userSocketMap, r) = {last'.sock} =>
                         UsersInRoom(userSocketMap', r) = << >>
       /\ (/\ last'.op = "join-request"
           /\ getUsersInRoom(last'.roomId) = << >>
           /\ \E call \in pending :
                  /\ call.user.roomId = last'.roomId
                  /\ call.user.username = last'.username
                  /\ call.user.socketId \notin connected) =>
              /\ userSocketMap' =
                     Append(userSocketMap,
                            NewUser(last'.username, last'.roomId, last'.sock))
              /\ Count(out', last'.sock, "join-accepted") = 1
              /\ Count(out', last'.sock, "username-exists") = 0]_vars

\* C21 witness: a connection joined the room under a username and has
\* disconnected (the persistence call of its join is still on record); the
\* room was empty again, and another connection has just been accepted into
\* it under the same username.
C21_Witness ==
    /\ last.op = "join-request"
    /\ last.sock \in connected
    /\ getUsersInRoom(last.roomId) =
           <<NewUser(last.username, last.roomId, last.sock)>>
    /\ Count(out, last.sock, "join-accepted") = 1
    /\ \E call \in pending :
           /\ call.user.roomId = last.roomId
           /\ call.user.username = last.username
           /\ call.user.socketId \notin connected
           /\ call.user.socketId # last.sock

\* C22: in every state reachable by join-request and typing-start events
\* with arbitrary payloads, every registry row's cursorPosition is an
\* integer greater than or equal to 0.
C22_CursorPositionNonNegative ==
    \A i \in 1..Len(userSocketMap) : userSocketMap[i].cursorPosition \in Nat

\* C23: typing-start and typing-pause sent by connection C change only C's
\* own registry row, and in it only typing (and, for typing-start,
\* cursorPosition); typing-pause leaves cursorPosition unchanged; every other
\* field of C and every field of every other row are unchanged, and no row
\* is added or removed.  If C has no row the registry is unchanged and
\* nothing is emitted.
C23_TypingFrame ==
    [][(last'.op \in {"typing-start", "typing-pause"}) =>
          /\ Len(userSocketMap') = Len(userSocketMap)
          /\ \A i \in 1..Len(userSocketMap) :
                 IF userSocketMap[i].socketId = last'.sock
                 THEN userSocketMap'[i] =
                          IF last'.op = "typing-start"
                          THEN [userSocketMap[i] EXCEPT
                                    !.typing = TRUE,
                                    !.cursorPosition = last'.cursorPosition]
                          ELSE [userSocketMap[i] EXCEPT !.typing = FALSE]
                 ELSE userSocketMap'[i] = userSocketMap[i]
          /\ ~HasRow(userSocketMap, last'.sock) =>
                 /\ userSocketMap' = userSocketMap
                 /\ out' = NoOut]_vars

\* C23 witness: a connection has paused typing while another member of its
\* room is still typing; its own row keeps the cursor position it had
\* written.
C23_Witness ==
    /\ last.op = "typing-pause"
    /\ HasRow(userSocketMap, last.sock)
    /\ getUserBySocketId(userSocketMap, last.sock).typing = FALSE
    /\ getUserBySocketId(userSocketMap, last.sock).cursorPosition \in CursorPositions
    /\ \E i \in 1..Len(userSocketMap) :
           /\ userSocketMap[i].socketId # last.sock
           /\ userSocketMap[i].roomId =
                  getUserBySocketId(userSocketMap, last.sock).roomId
           /\ userSocketMap[i].typing = TRUE

\* C24: in both server variants a user-online or user-offline event naming a
\* connection id that has no registry row leaves the registry unchanged,
\* delivers nothing to any connection and raises no exception out of the
\* handler, so that later events are still served.
C24_PresenceOfUnknownIdIgnored ==
    [][(last'.op \in {"user-offline", "user-online"}
           /\ ~HasRow(userSocketMap, last'.target)) =>
          /\ userSocketMap' = userSocketMap
          /\ out' = NoOut
          /\ ~crashed']_vars

\* The rooms connection s has a row in, before or after the step.
RoomsOf(s) ==
    {userSocketMap[i].roomId :
        i \in {j \in 1..Len(userSocketMap) : userSocketMap[j].socketId = s}}
    \cup
    {userSocketMap'[i].roomId :
        i \in {j \in 1..Len(userSocketMap') : userSocketMap'[j].socketId = s}}

\* C25: room isolation.  No event sent by a connection S changes a registry
\* row of, or is delivered to, a connection whose room differs from S's
\* room; a connection with no registry row can neither change any row nor
\* cause any delivery (to another connection).  This holds for every event
\* type, user-online / user-offline naming another connection included.
C25_RoomIsolation ==
    [][(last'.op # "init") =>
          LET S == last'.sock
          IN  /\ \A c \in Sockets \ {S} :
                     out'[c] # << >> =>
                         \E r \in RoomsOf(S) : c \in Members(userSocketMap, r)
              /\ \A u \in Rows(userSocketMap) \ Rows(userSocketMap') :
                     u.socketId = S \/ u.roomId \in RoomsOf(S)]_vars

\* Connections a and b have rows in one room.
ShareRoom(map, a, b) ==
    \E i, j \in 1..Len(map) :
        /\ map[i].socketId = a
        /\ map[j].socketId = b
        /\ map[i].roomId = map[j].roomId

\* C26: drawing hand-shake.  request-drawing sent by joined connection A is
\* delivered to every other member of A's room with payload socketId = A; a
\* sync-drawing that a member B then sends with that id as target is
\* delivered to A and only A, provided A has not disconnected in between;
\* if it has, nothing is delivered and no state changes.
C26_DrawingHandshake ==
    [][/\ (last'.op = "request-drawing" /\ HasRow(userSocketMap, last'.sock)) =>
              \A r \in RoomIds :
                  last'.sock \in Members(userSocketMap, r) =>
                      \A c \in Members(userSocketMap, r) \ {last'.sock} :
                          /\ Count(out', c, "request-drawing") = 1
                          /\ Carries(out', c, "request-drawing",
                                     [socketId |-> last'.sock])
       /\ (/\ last'.op = "sync-drawing"
           /\ last'.target # last'.sock
           /\ HasRow(userSocketMap, last'.sock)
           /\ \/ ShareRoom(userSocketMap, last'.sock, last'.target)
              \/ last'.target \notin connected) =>
              /\ Recipients(out', "sync-drawing") =
                     {last'.target} \cap connected
              /\ userSocketMap' = userSocketMap
              /\ rooms' = rooms]_vars

\* The hand-shake as the claim tells it: c3 and c2 share r1, c3 is connected,
\* c2 answers c3's request, and a third connection receives the answer.
C26_AnswerReachesThirdParty ==
    ~(/\ last.op = "sync-drawing"
      /\ last.sock = "c2"
      /\ last.target = "c3"
      /\ "c3" \in connected
      /\ ShareRoom(userSocketMap, "c2", "c3")
      /\ out["c1"] # << >>)

\* Rooms a connection is in, its own-id room aside.
JoinedRooms(rm, s) == rm[s] \ {s}

\* C27: in every reachable state a connection belongs to the broadcast group
\* of at most one room and its events are routed to the room it most
\* recently joined; a second accepted join-request by the same connection
\* into a different room R2 moves it: it leaves R1's group and its events go
\* to R2.
C27_OneRoomPerConnection ==
    [][/\ \A c \in Sockets : Cardinality(JoinedRooms(rooms', c)) <= 1
       /\ (/\ last'.op = "join-request"
           /\ Len(userSocketMap') > Len(userSocketMap)
           /\ HasRow(userSocketMap, last'.sock)
           /\ getRoomId(userSocketMap, last'.sock) # last'.roomId) =>
              /\ getRoomId(userSocketMap, last'.sock) \notin rooms'[last'.sock]
              /\ getRoomId(userSocketMap', last'.sock) = last'.roomId]_vars

\* Room ids some row names or some connection has joined.
RoomsInUse ==
    {userSocketMap[i].roomId : i \in 1..Len(userSocketMap)}
    \cup UNION {JoinedRooms(rooms, c) : c \in Sockets}

\* C28: transport group membership and the registry agree: a connection c is
\* in the broadcast group of room R if and only if the registry holds a row
\* with connection id c and roomId R.
C28_GroupsMatchRegistry ==
    \A c \in Sockets : \A R \in RoomsInUse :
        (c \in InRoom(rooms, R)) <=> (c \in Members(userSocketMap, R))

\* C29: Pusher server: whenever POST /api/join-room answers with an error
\* status (400 username exists, or 500 because a pusher.trigger call
\* failed), the registry is the same as before the request: no participant
\* row of the request is left behind.
C29_ErrorAnswerLeavesNoRow ==
    [][/\ (last'.op = "join-room" /\ Count(out', last'.sock, "400") = 1) =>
              userSocketMap' = userSocketMap
       /\ \A call \in pending \ pending' :
              Count(out', call.client, "500") = 1 =>
                  call.user \notin Rows(userSocketMap')]_vars

\* The user-disconnected events triggered so far for userId.
DisconnectedTriggers(tr, userId) ==
    {i \in 1..Len(tr) :
        tr[i].ev = "user-disconnected" /\ tr[i].user.socketId = userId}

\* C30: Pusher server: POST /api/leave-room is idempotent on the registry.
\* For a userId with a row it removes exactly that row and triggers one
\* user-disconnected with the removed participant on the room's channel; for
\* a userId with no row it changes nothing and triggers no event; leave
\* requests for the same userId, however interleaved, trigger
\* user-disconnected exactly once.
C30_LeaveRoomIdempotent ==
    [][(last'.op = "leave-room") =>
          /\ IF HasRow(userSocketMap, last'.target)
             THEN LET user == getUserBySocketId(userSocketMap, last'.target)
                  IN  /\ userSocketMap' =
                             SelectSeq(userSocketMap, LAMBDA u : u # user)
                      /\ Len(userSocketMap') = Len(userSocketMap) - 1
                      /\ triggered' =
                             Append(triggered,
                                    [channel |-> user.roomId,
                                     ev |-> "user-disconnected",
                                     user |-> user])
             ELSE /\ userSocketMap' = userSocketMap
                  /\ triggered' = triggered
          /\ \A id \in UserIds :
                 Cardinality(DisconnectedTriggers(triggered', id)) <= 1]_vars

\* The HTTP clients whose joinRoom got the success response.
JoinSucceeded(c) ==
    pusherClient[c].answered /\ Len(inbox[c]) > 0 /\ inbox[c][1].ev = "200"

\* The user-joined events triggered for room roomId after position n.
Newcomers(roomId, n) ==
    {triggered[i].user : i \in {j \in (n + 1)..Len(triggered) :
        /\ triggered[j].ev = "user-joined"
        /\ triggered[j].user.roomId = roomId}}

\* C31: Pusher variant, end to end: after a client's joinRoom gets a success
\* response from POST /api/join-room, the client eventually receives the
\* join-accepted event the server triggered for it (its status becomes
\* JOINED and its user list is the roster), and clients that joined the room
\* earlier receive the user-joined event of a newcomer.  The server triggers
\* join-accepted before it answers, so "eventually" is: once every event
\* triggered on the client's channel has been delivered to it.
C31_JoinAcceptedArrives ==
    \A c \in Sockets :
        (JoinSucceeded(c) /\ Undelivered(c) = {}) =>
            /\ pusherClient[c].status = "JOINED"
            /\ \A u \in Newcomers(pusherClient[c].request.roomId,
                                  pusherClient[c].since) :
                   \E i \in 1..Len(pusherClient[c].users) :
                       pusherClient[c].users[i] = u

\* ------------------------------------------------------------------ SocketProvider claims
\* The reconnect or retry timer of a mounted provider has just run.
RetryRan ==
    /\ provider.lastRun.event \in {"reconnect", "retry"}
    /\ provider.isMountedRef

\* C32: in SocketContext.tsx, when the reconnect timer of handleDisconnect or
\* the retry timer of handleError or handleConnectError runs in a mounted
\* provider whose socket is not connected, initializeSocket goes on to
\* create and connect a new socket, leaving status 'connecting' (or 'error'
\* when io or connect throws); it does not return at its guard.
C32_ReconnectCreatesSocket ==
    (provider.file = SocketContextTsx /\ RetryRan /\ ~SocketConnected(provider))
        => provider.lastRun.init \in {"created", "threw"}

\* A failure handler of a mounted provider has just scheduled the next
\* initializeSocket call.
FailureHandled ==
    /\ provider.lastRun.event \in {"disconnect", "error", "connect_error"}
    /\ provider.lastRun.delay > 0

\* C33: in part_006 the delay a failure handler schedules after the k-th
\* consecutive failure (no successful connect in between) is the capped
\* exponential min(1000 * 2^k, 5000), counting k from the failure just
\* handled or from the ones before it.
C33_ExponentialBackoff ==
    (provider.file = Part006 /\ FailureHandled)
        => provider.lastRun.delay \in
               {RetryDelay(provider.failures), RetryDelay(provider.failures - 1)}

\* The number of times event e went out on a socket.
TimesSent(e) == Cardinality({i \in 1..Len(provider.sent) : provider.sent[i] = e})

\* C34: in part_006 no event passed to emit is lost: whenever the current
\* socket is connected, every event passed so far has been sent exactly
\* once, the ones passed while disconnected included.
C34_EmitNeverLoses ==
    (provider.file = Part006 /\ SocketConnected(provider))
        => \A e \in 1..provider.passed : TimesSent(e) = 1

\* The sockets of the provider that are open or connecting.
LiveSockets ==
    {i \in 1..Len(provider.sockets) : provider.sockets[i].state # "closed"}

\* C35: in both providers at most one socket is open or connecting, it is
\* the one socketRef holds, and every socket created before the newest one
\* is closed.
C35_OneLiveSocket ==
    /\ Cardinality(LiveSockets) <= 1
    /\ LiveSockets \subseteq {provider.socketRef}
    /\ \A i \in 1..Len(provider.sockets) :
           i < Len(provider.sockets) => provider.sockets[i].state = "closed"

\* A second socket has been created while the first was open or connecting.
C35_Witness ==
    /\ Len(provider.sockets) >= 2
    /\ provider.lastRun.init = "created"
    /\ provider.sockets[Len(provider.sockets)].state = "connecting"

\* A step that ends with the provider unmounted leaves every socket
\* closed, and creates none when the provider was unmounted before it.
StaysClosed ==
    (provider.file = Part006 /\ provider'.effectRan /\ ~provider'.mounted)
        => /\ \A i \in 1..Len(provider'.sockets) :
                  provider'.sockets[i].state = "closed"
           /\ ~provider.mounted =>
                  Len(provider'.sockets) = Len(provider.sockets)

\* C36: in part_006, from the unmount until a later mount, no reconnect,
\* retry or connection-timeout timer creates or connects a socket, and the
\* socket that existed at unmount is closed and stays closed.
C36_NoSocketAfterUnmount == [][StaysClosed]_vars

\* The connection timeout of a socket has run after the unmount.
C36_Witness ==
    /\ provider.file = Part006
    /\ ~provider.mounted
    /\ provider.lastRun.event = "connectionTimeout"
    /\ provider.lastRun.init = "skipped"
    /\ Len(provider.sockets) >= 1

\* The values of the status the provider exposes.
Statuses == {"connecting", "connected", "disconnected", "error"}

\* C38: in part_006 the exposed flags agree in every state: isConnected is
\* true exactly when status is 'connected', and status is one of the four
\* values.
C38_FlagsAgree ==
    provider.file = Part006 =>
        /\ provider.status \in Statuses
        /\ provider.isConnected <=> provider.status = "connected"

\* ------------------------------------------------------------------ client roster claims
\* The answers connection c got to its own join requests.
JoinAnswers(c) ==
    {i \in 1..Len(inbox[c]) : inbox[c][i].ev \in {"join-accepted", "username-exists"}}

\* Connection c called joinRoom once, was accepted into roomId and is still
\* connected.
JoinedOnce(c, roomId) ==
    /\ c \in connected
    /\ Cardinality(JoinAnswers(c)) = 1
    /\ \E i \in JoinAnswers(c) :
           /\ inbox[c][i].ev = "join-accepted"
           /\ inbox[c][i].payload.user.roomId = roomId

\* A participant as the sidebar shows it.
Participant(u) == [socketId |-> u.socketId, username |-> u.username]

Participants(users) == {Participant(users[i]) : i \in 1..Len(users)}

\* C37: with every emitted event delivered in order, the users list of a
\* client that joined room R holds exactly the participants of the
\* server's getUsersInRoom(R), each once, whatever joins and disconnects
\* the other connections made.
C37_ClientRosterMirrorsServer ==
    \A c \in Sockets, r \in PlainRoomIds :
        JoinedOnce(c, r) =>
            LET users == UsersAfter(<< >>, inbox[c])
            IN  /\ Participants(users) = Participants(getUsersInRoom(r))
                /\ Cardinality(Participants(users)) = Len(users)

\* ------------------------------------------------------------------ connectToDatabase claims
\* C39: one top-level call of connectToDatabase runs its try block at most
\* MAX_RETRIES = 3 times, awaiting 2000 ms after the first failure and
\* 4000 ms after the second; when it has returned after an attempt
\* isConnected is true; it throws only after the third failure, the error
\* of that failure, with isConnected false; called with isConnected true and readyState 1 it
\* returns without an attempt.
C39_ConnectRetries ==
    /\ db.attempts <= 3
    /\ db.waited \in {<< >>, <<2000>>, <<2000, 4000>>}
    /\ db.attempts > 0 =>
           Len(db.waited) = IF db.pc = "waiting" THEN db.attempts
                            ELSE db.attempts - 1
    /\ (db.pc = "returned" /\ db.attempts > 0) => db.isConnected
    /\ db.pc = "thrown" =>
           /\ ~db.isConnected
           /\ db.attempts = 3
           /\ db.waited = <<2000, 4000>>
           /\ Len(db.errors) = 3
           /\ db.thrown = db.errors[3]
    /\ db.wasReady => (db.attempts = 0 /\ db.pc = "returned")

\* The call has returned connected from its third attempt.
C39_Witness ==
    /\ db.pc = "returned"
    /\ db.attempts = 3
    /\ db.waited = <<2000, 4000>>
    /\ db.isConnected
====
